---- MODULE Spec2Model ----
(***************************************************************************)
(* Verification model of the scout-nova-integration backend.               *)
(*                                                                         *)
(* Part 1: the Session Lifecycle Service                                   *)
(*   src/Endpoints/SessionManagerLambda/src/lambda_function.py             *)
(*   src/Endpoints/SessionManagerLambda/src/utils/session_manager.py       *)
(*   src/Endpoints/SessionManagerLambda/src/utils/response_handler.py      *)
(* Part 2: the $connect gate of the streaming chat bridge                  *)
(*   src/Endpoints/InvokeWebSocketAgentLambda/src/lambda_function.py       *)
(*   src/Endpoints/InvokeWebSocketAgentLambda/src/utils/auth.py            *)
(*                                                                         *)
(* Strings that the code only compares for equality are TLA+ strings.      *)
(* Strings the code concatenates, prefix-matches or that the store orders  *)
(* (the sort key) are sequences of character codes, so begins_with and the *)
(* store's ascending sort-key order are computed, not assumed.             *)
(***************************************************************************)
EXTENDS Integers, Sequences, FiniteSets, TLC

VARIABLES
    table,            \* the DynamoDB session table: a set of items
    now,              \* int(time.time())
    ticks,            \* how often the clock has advanced (bounds the model)
    usedUuids,        \* the uuid4 values drawn so far
    last,             \* the response of the latest lambda_handler invocation
    tableConfigured,  \* config.SESSION_TABLE_NAME is set
    keyConfigured,    \* config.TOKEN_ENCRYPTION_KEY_ID is set
    storeTouched,     \* some DynamoDB call (query/put/update) was ever issued
    issued,           \* the sessionIds get_or_create_session has returned
    wsEvent,          \* the latest event of the streaming chat bridge
    wsResp,           \* what the bridge's lambda_handler returned for it
    hmPc,             \* where handle_message stands
    hmBody,           \* the body of its sendMessage event
    hmResp,           \* the agent runtime's response
    hmWords,          \* words: clean_message.strip().split()
    hmI,              \* lines or words its loop has taken
    hmLastTextSent,   \* last_text_sent
    hmChunk,          \* chunk: the words gathered for the next post
    hmPosts,          \* the post_to_connection calls made, in order
    hmSessionId,      \* session_id
    hmInvoked,        \* invoke_agent_runtime was called
    hmRaised,         \* the except block was entered
    hmRet,            \* the statusCode returned, 0 before the return
    voActive,         \* WebSocketOutput.is_active
    voCounter,        \* content_counter
    voContentId,      \* the n of active_content_id 'content-<n>', 0 for None
    voRole,           \* active_role, "" for None
    voText,           \* accumulated_text
    voErrors,         \* tool_error_count
    voQueue,          \* the messages put on output_queue, in order
    voLog,            \* the output events __call__ was called with, in order
    voTerminated      \* __call__ raised: the agent run and the session end

sessVars == <<table, now, ticks, usedUuids, last, tableConfigured,
              keyConfigured, storeTouched, issued>>

wsVars == <<wsEvent, wsResp>>

hmVars == <<hmPc, hmBody, hmResp, hmWords, hmI, hmLastTextSent, hmChunk,
            hmPosts, hmSessionId, hmInvoked, hmRaised, hmRet>>

voVars == <<voActive, voCounter, voContentId, voRole, voText, voErrors,
            voQueue, voLog, voTerminated>>

VARIABLES
    cwPc,             \* where handle_websocket of the voice bridge stands
    cwReceiver,       \* receiver_task: "none", "running" or "done"
    cwSender,         \* sender_task: "none", "running" or "done"
    cwAgent,          \* agent_task: "none", "running", "cancelling" or "done"
    cwIsActive,       \* is_active.is_set()
    cwInput,          \* input_queue
    cwOutput,         \* output_queue
    cwSent,           \* the messages websocket.send has delivered, in order
    cwOutcome,        \* how the agent run ended, "" while it has not
    cwEscaped,        \* an exception left handle_websocket
    cwLog             \* what was put on output_queue, in order, and "shutdown"
                      \* where is_active was cleared

cwVars == <<cwPc, cwReceiver, cwSender, cwAgent, cwIsActive, cwInput,
            cwOutput, cwSent, cwOutcome, cwEscaped, cwLog>>

VARIABLES
    gtTools,          \* the module's _tools: 0 for None, else the list loaded n-th
    gtLoads,          \* how many lists load_gateway_tools has returned
    gtPc,             \* where each connection stands
    gtUsed,           \* the list each connection's agent was built with, 0 for none
    gtVariant         \* which voice server the process runs, "" before it starts

gtVars == <<gtTools, gtLoads, gtPc, gtUsed, gtVariant>>

VARIABLES
    sfCached,         \* CACHED_CONNECTION: 0 for None, else the connection's number
    sfLastTime,       \* LAST_CONNECTION_TIME
    sfNow,            \* time.time()
    sfConns,          \* the connections established: when, and whether closed
    sfCall            \* the latest call of connect_to_snowflake and its outcome

sfVars == <<sfCached, sfLastTime, sfNow, sfConns, sfCall>>

VARIABLES
    whCall,           \* the latest invocation of the synchronous warehouse tool
    whCount,          \* how many invocations the container has served
    whTool,           \* the deployable the container runs, "" before it starts
    ahCall            \* the latest invocation of the asynchronous warehouse tool

whVars == <<whCall, whCount, whTool, ahCall>>

VARIABLES
    hyCall            \* the latest invocation of the loan-detail tool

hyVars == <<hyCall>>

\* the variables of the parts that follow the warehouse tools
VARIABLES
    rbPc,             \* where handle_websocket of the raw-protocol bridge stands
    rbWs,             \* ws_task: "none", "running", "cancelling", "cancelled", "done"
    rbBr,             \* bedrock_task: the same, or "executing" inside execute_tool
    rbActive,         \* is_active
    rbToolUseId,      \* current_tool_use_id, 0 for None
    rbToolInputOk,    \* current_tool_input is empty or parses as JSON
    rbPromptName,     \* current_prompt_name, "" for None
    rbCounter,        \* tool_content_counter
    rbLog,            \* every event sent, to the model stream or the client, in order
    rbReceived,       \* the events received from the model, in arrival order
    rbExecs,          \* the toolUseId of every execute_tool call that returned
    rbContents,       \* what each of these calls returned: "result" or "error"
    rbClosed,         \* how often stream.input_stream.close() was called
    rbMsgs            \* how many client messages ws_to_bedrock has read

rbVars == <<rbPc, rbWs, rbBr, rbActive, rbToolUseId, rbToolInputOk,
            rbPromptName, rbCounter, rbLog, rbReceived, rbExecs, rbContents, rbClosed, rbMsgs>>

VARIABLES
    crPc,             \* the credential-refresh task: "fetching", "sleeping", "ended"
    crDelay,          \* the argument of the latest asyncio.sleep, 0 before the first
    crFetch,          \* the outcome of the latest get_credentials_from_imds round
    crRounds          \* how many rounds the loop has made

crVars == <<crPc, crDelay, crFetch, crRounds>>

VARIABLES
    gcPc,             \* where each concurrent get_or_create_session call stands
    gcLoan,           \* the loanId each call was made with
    gcSeen,           \* the reusable items each call's query returned
    gcRet,            \* what each call returned
    gcNow             \* the time each call read before its query

gcVars == <<gcPc, gcLoan, gcSeen, gcRet, gcNow>>

VARIABLES
    bcPc,             \* where each concurrent connect_to_snowflake call stands
    bcLock,           \* CONNECTION_LOCK
    bcSawBusy,        \* the call found CONNECTION_LOCK set on entry
    bcRet             \* what each call returned

bcVars == <<bcPc, bcLock, bcSawBusy, bcRet>>

VARIABLES
    kaAgent,          \* the briefing agent's _agent: 0 for None, else the n-th built
    kaBuilt,          \* how many Agent instances have been constructed
    kaTries,          \* how many constructions were started
    kaLock,           \* the invocation holding _agent_init_lock, 0 for none
    kaPc,             \* where each invocation stands
    kaUsed,           \* the instance each invocation streams from, 0 for none
    kaErrors          \* the error events each invocation has yielded

kaVars == <<kaAgent, kaBuilt, kaTries, kaLock, kaPc, kaUsed, kaErrors>>

VARIABLES
    wiQueue,          \* WebSocketInput.input_queue: audio items and None
    wiPut,            \* everything put on input_queue so far, in order
    wiActive,         \* WebSocketInput.is_active
    wiReturned,       \* the events __call__ has returned, in order
    wiReceiver,       \* where websocket_receiver stands
    wiEvent,          \* the handler's is_active event
    wiIdle            \* the calls made since the adapter became inactive

wiVars == <<wiQueue, wiPut, wiActive, wiReturned, wiReceiver, wiEvent, wiIdle>>

tailVars == <<hyVars, rbVars, crVars, gcVars, bcVars, kaVars, wiVars>>

\* the variables of the parts that follow the chat bridge and its adapter
restVars == <<cwVars, gtVars, sfVars, whVars, tailVars>>

coreVars == <<sessVars, wsVars, hmVars, voVars>>

cwOthers == <<coreVars, gtVars, sfVars, whVars, tailVars>>
gtOthers == <<coreVars, cwVars, sfVars, whVars, tailVars>>
sfOthers == <<coreVars, cwVars, gtVars, whVars, tailVars>>
whOthers == <<coreVars, cwVars, gtVars, tailVars>>
hyOthers == <<coreVars, cwVars, gtVars, sfVars, whVars, rbVars, crVars, gcVars, bcVars, kaVars, wiVars>>
rbOthers == <<coreVars, cwVars, gtVars, sfVars, whVars, hyVars, crVars, gcVars, bcVars, kaVars, wiVars>>
crOthers == <<coreVars, cwVars, gtVars, sfVars, whVars, hyVars, rbVars, gcVars, bcVars, kaVars, wiVars>>
gcOthers == <<wsVars, hmVars, voVars, cwVars, gtVars, sfVars, whVars, hyVars, rbVars, crVars, bcVars, kaVars, wiVars>>
bcOthers == <<coreVars, cwVars, gtVars, hyVars, rbVars, crVars, gcVars, whVars, kaVars, wiVars>>
kaOthers == <<coreVars, cwVars, gtVars, sfVars, whVars, hyVars, rbVars, crVars, gcVars, bcVars, wiVars>>
wiOthers == <<coreVars, cwVars, gtVars, sfVars, whVars, hyVars, rbVars, crVars, gcVars, bcVars, kaVars>>

vars == <<table, now, ticks, usedUuids, last, tableConfigured,
          keyConfigured, storeTouched, issued, wsEvent, wsResp,
          hmPc, hmBody, hmResp, hmWords, hmI, hmLastTextSent, hmChunk,
          hmPosts, hmSessionId, hmInvoked, hmRaised, hmRet,
          voActive, voCounter, voContentId, voRole, voText, voErrors,
          voQueue, voLog, voTerminated, restVars>>

-----------------------------------------------------------------------------
(* Bounds of the model *)

MaxUuid == 3
MaxTicks == 1
MaxNonce == 1
MaxParts == 3
MaxLines == 3
MaxWords == 6
MaxVoiceEvents == 5
MaxToolEvents == 5
MaxQueue == 2
MaxConnections == 3
MaxSfTicks == 3
MaxConns == 3
MaxInvocations == 2
MaxReports == 2
MaxModelEvents == 4
MaxClientMessages == 2
MaxExpiryMinutes == 70
MaxRounds == 2
MaxBriefings == 3
MaxAudio == 3
MaxIdleCalls == 2

(* Program constants *)

SESSION_ACTIVITY_TIMEOUT_SECONDS == 1800
TTL_SECONDS == 7776000

-----------------------------------------------------------------------------
(* Character codes.  Only their order matters: it is the byte order of the *)
(* characters, '-' below the digits, and uuid4 strings in between and      *)
(* around the digits (a uuid4 starts with any hex digit).                  *)

Dash == 0
ChPortal == 80      \* the word "Portal"
ChLoan == 76        \* the word "Loan"
Digit1 == 10

UUIDs == 1..MaxUuid
UuidCode(u) == 10 * u - 5

\* loanId values a caller sends; <<>> is "no loanId" (None or "", both falsy)
NoLoan == <<>>
LoanIds == {<<Digit1>>}

Brokers == {"", "b1"}       \* "" is a missing/empty brokerId
Users == {"", "u1"}         \* "" is a missing/empty sysUserId
Tokens == {"", "tok"}       \* "" is no token
Nonces == 1..MaxNonce       \* KMS ciphertexts of one plaintext differ

Deltas == {1799, 1800}   \* how far the clock advances between requests

-----------------------------------------------------------------------------
(* Stored attribute values of oauthToken *)

NoAttr == [enc |-> FALSE, text |-> "", nonce |-> 0]
Plain(t) == [enc |-> FALSE, text |-> t, nonce |-> 0]
B64Cipher(t, n) == [enc |-> TRUE, text |-> t, nonce |-> n]

\* mutant of EncryptOauthToken: a failed encryption falls back to the clear text
EncryptOauthTokenClearOnFailure(token, kmsOk, n) ==
    IF token = "" THEN NoAttr
    ELSE IF keyConfigured /\ kmsOk THEN B64Cipher(token, n)
    ELSE Plain(token)

(* _encrypt_oauth_token: None (NoAttr) without token or key id or when    *)
(* kms_client.encrypt raises, else base64 of the ciphertext blob.          *)
EncryptOauthToken(token, kmsOk, n) ==
    IF token = "" \/ ~keyConfigured THEN NoAttr
    ELSE IF kmsOk THEN B64Cipher(token, n)
    ELSE NoAttr

-----------------------------------------------------------------------------
(* Session ids and sort keys *)

\* f"Loan-{loan_id}" / "Portal"
Context(loan) ==
    IF Len(loan) > 0 THEN <<ChLoan, Dash>> \o loan ELSE <<ChPortal>>

\* the part of session_id_prefix after "{broker_id}-{sys_user_id}-"
SessionIdPrefix(loan) == Context(loan)

\* f"{session_id_prefix}-{session_uuid}" after "{broker_id}-{sys_user_id}-"
SessionTail(loan, u) == SessionIdPrefix(loan) \o <<Dash, UuidCode(u)>>

SessionId(broker, user, loan, u) ==
    [broker |-> broker, user |-> user, tail |-> SessionTail(loan, u)]

NoSid == [broker |-> "", user |-> "", tail |-> <<>>]

BeginsWith(s, p) ==
    /\ Len(s) >= Len(p)
    /\ SubSeq(s, 1, Len(p)) = p

\* byte-wise order of two strings
RECURSIVE StrLess(_, _)
StrLess(a, b) ==
    IF Len(b) = 0 THEN FALSE
    ELSE IF Len(a) = 0 THEN TRUE
    ELSE IF Head(a) # Head(b) THEN Head(a) < Head(b)
    ELSE StrLess(Tail(a), Tail(b))

-----------------------------------------------------------------------------
(* The store *)

\* table.query(PK = :pk AND begins_with(SK, 'SESSION#<prefix>-'))
KeyMatches(pk, prefix) ==
    {it \in table : it.PK = pk /\ BeginsWith(it.SK, prefix \o <<Dash>>)}

\* Limit=1: the store reads the first item in ascending sort-key order
FirstBySK(items) ==
    CHOOSE it \in items : \A o \in items : o = it \/ StrLess(it.SK, o.SK)

\* the query of get_or_create_session: Limit=1, then FilterExpression
QueryActiveByPrefix(pk, prefix) ==
    LET m == KeyMatches(pk, prefix)
    IN  IF m = {} THEN {}
        ELSE {it \in {FirstBySK(m)} : it.status = "active"}

\* query on sessionId-index
QueryBySessionId(sid) == {it \in table : it.sessionId = sid}

-----------------------------------------------------------------------------
(* Responses *)

NoResp ==
    [op |-> "none", statusCode |-> 0, keys |-> {},
     \* the request: its loanId and sessionId, whether a required field was
     \* missing, and whether a storage call raised while it was served
     loan |-> NoLoan, sid |-> NoSid, missing |-> FALSE, fault |-> FALSE,
     \* the response body
     sessionId |-> NoSid, new_session |-> FALSE, context |-> <<>>,
     fallback |-> FALSE, valid |-> FALSE, updated |-> FALSE,
     reason |-> "", lastActivityAt |-> 0]

\* create_error_response(status_code, message)
ErrorResponse(op, code, loan, sid) ==
    [NoResp EXCEPT !.op = op, !.statusCode = code, !.keys = {"error", "timestamp"},
                   !.loan = loan, !.sid = sid]

\* create_success_response(result)
SuccessResponse(op, loan, sid) ==
    [NoResp EXCEPT !.op = op, !.statusCode = 200, !.loan = loan, !.sid = sid]

-----------------------------------------------------------------------------
SessionInit ==
    /\ table = {}
    /\ now = 0
    /\ ticks = 0
    /\ usedUuids = {}
    /\ last = NoResp
    /\ tableConfigured \in BOOLEAN
    /\ keyConfigured \in BOOLEAN
    /\ storeTouched = FALSE
    /\ issued = {}

Tick ==
    /\ ticks < MaxTicks
    /\ \E d \in Deltas : now' = now + d
    /\ ticks' = ticks + 1
    /\ UNCHANGED <<table, usedUuids, last, tableConfigured, keyConfigured,
                   storeTouched, issued>>
    /\ UNCHANGED <<wsVars, hmVars, voVars, restVars>>

-----------------------------------------------------------------------------
(* session_manager.py *)

\* time_since_activity < SESSION_ACTIVITY_TIMEOUT_SECONDS
WithinActivityWindow(item, t) ==
    t - item.lastActivityAt < SESSION_ACTIVITY_TIMEOUT_SECONDS

\* mutant of TouchItem: the ttl is not extended with the activity
TouchItemKeepTtl(item, t) ==
    [item EXCEPT !.lastActivityAt = t]

\* SET lastActivityAt = :activity, #ttl = :ttl
TouchItem(item, t) ==
    [item EXCEPT !.lastActivityAt = t, !.ttl = t + TTL_SECONDS]

\* the oauthToken attribute after _update_existing_session's update_item
RefreshedToken(item, encrypted) ==
    IF encrypted # NoAttr /\ item.oauthToken # encrypted THEN encrypted
    ELSE item.oauthToken

\* the item _update_existing_session leaves in the table (the nmlsId
\* attribute, which decides no other attribute and no response field kept
\* here, is left out of the items)
UpdateExistingSession(item, token, kmsOk, n, t) ==
    [TouchItem(item, t) EXCEPT
        !.oauthToken = RefreshedToken(item, EncryptOauthToken(token, kmsOk, n))]

\* the item _create_new_session puts
CreateNewSession(broker, user, loan, token, kmsOk, n, u, t) ==
    [PK |-> <<broker, user>>,
     SK |-> SessionTail(loan, u),
     sessionId |-> SessionId(broker, user, loan, u),
     brokerId |-> broker,
     loanOfficerId |-> user,
     status |-> "active",
     createdAt |-> t,
     lastActivityAt |-> t,
     ttl |-> t + TTL_SECONDS,
     loanId |-> loan,
     oauthToken |-> EncryptOauthToken(token, kmsOk, n)]

\* put_item that writes only when the key's context holds no item yet
PutItemIfNoneInContext(item) ==
    IF \E it \in table : it.PK = item.PK /\ it.loanId = item.loanId
    THEN table
    ELSE {it \in table : ~(it.PK = item.PK /\ it.SK = item.SK)} \cup {item}

\* table.put_item: replaces the item with the same primary key
PutItem(item) ==
    {it \in table : ~(it.PK = item.PK /\ it.SK = item.SK)} \cup {item}

\* mutant of FallbackResult: the id carries no fresh uuid
FallbackResultNoUuid(resp, broker, user, loan, u) ==
    [resp EXCEPT !.keys = {"session", "new_session"},
                 !.sessionId = SessionId(broker, user, loan, 1),
                 !.new_session = TRUE,
                 !.fallback = TRUE]

\* the result of _create_fallback_session
FallbackResult(resp, broker, user, loan, u) ==
    [resp EXCEPT !.keys = {"session", "new_session"},
                 !.sessionId = SessionId(broker, user, loan, u),
                 !.new_session = TRUE,
                 !.fallback = TRUE]

\* the result of get_or_create_session on the table path
SessionResult(resp, item, isNew, loan) ==
    [resp EXCEPT !.keys = {"session", "new_session", "context"},
                 !.sessionId = item.sessionId,
                 !.new_session = isNew,
                 !.context = Context(loan),
                 !.lastActivityAt = item.lastActivityAt]

\* lambda_handler with action = 'get_or_create_session'.
\* err: "none", or the storage call that raises ("query", "write").
GetOrCreateSession(broker, user, loan, token, err, kmsOk, n, u) ==
    LET ok    == SuccessResponse("get_or_create_session", loan, NoSid)
        e400  == [ErrorResponse("get_or_create_session", 400, loan, NoSid)
                    EXCEPT !.missing = TRUE]
        e500  == [ErrorResponse("get_or_create_session", 500, loan, NoSid)
                    EXCEPT !.fault = TRUE]
        found == QueryActiveByPrefix(<<broker, user>>, SessionIdPrefix(loan))
        reuse == {it \in found : WithinActivityWindow(it, now)}
    IN
    IF broker = "" \/ user = "" THEN
        /\ last' = e400
        /\ UNCHANGED <<table, usedUuids, storeTouched, issued>>
    ELSE IF ~tableConfigured THEN
        /\ u \notin usedUuids
        /\ usedUuids' = usedUuids \cup {u}
        /\ last' = FallbackResult(ok, broker, user, loan, u)
        /\ issued' = issued \cup {last'.sessionId}
        /\ UNCHANGED <<table, storeTouched>>
    ELSE IF err = "query" THEN
        /\ last' = e500
        /\ storeTouched' = TRUE
        /\ UNCHANGED <<table, usedUuids, issued>>
    ELSE IF reuse # {} THEN
        \E item \in reuse :
            LET upd == UpdateExistingSession(item, token, kmsOk, n, now)
            IN  /\ storeTouched' = TRUE
                /\ UNCHANGED usedUuids
                /\ IF err = "write"
                   THEN /\ last' = e500
                        /\ UNCHANGED <<table, issued>>
                   ELSE /\ table' = (table \ {item}) \cup {upd}
                        /\ last' = SessionResult(ok, upd, FALSE, loan)
                        /\ issued' = issued \cup {last'.sessionId}
    ELSE
        LET item == CreateNewSession(broker, user, loan, token, kmsOk, n, u, now)
        IN  /\ u \notin usedUuids
            /\ storeTouched' = TRUE
            /\ IF err = "write"
               THEN /\ last' = e500
                    /\ UNCHANGED <<table, usedUuids, issued>>
               ELSE /\ table' = PutItem(item)
                    /\ usedUuids' = usedUuids \cup {u}
                    /\ last' = SessionResult(ok, item, TRUE, loan)
                    /\ issued' = issued \cup {last'.sessionId}

\* mutant of IsValid: the window includes its end
IsValidInclusive(item, t) ==
    t - item.lastActivityAt <= SESSION_ACTIVITY_TIMEOUT_SECONDS

\* is_valid of validate_session
IsValid(item, t) == WithinActivityWindow(item, t)

\* lambda_handler with action = 'validate_session'
ValidateSession(sid, err) ==
    LET ok    == SuccessResponse("validate_session", NoLoan, sid)
        items == {it \in QueryBySessionId(sid) : it.status = "active"}
    IN
    /\ UNCHANGED <<table, usedUuids, issued>>
    /\ IF sid = NoSid THEN
           /\ last' = [ErrorResponse("validate_session", 400, NoLoan, sid)
                          EXCEPT !.missing = TRUE]
           /\ UNCHANGED storeTouched
       ELSE IF ~tableConfigured THEN
           /\ last' = [ok EXCEPT !.keys = {"valid", "reason"}, !.valid = TRUE,
                                 !.reason = "Table not configured"]
           /\ UNCHANGED storeTouched
       ELSE IF err THEN
           /\ last' = [ErrorResponse("validate_session", 500, NoLoan, sid)
                          EXCEPT !.fault = TRUE]
           /\ storeTouched' = TRUE
       ELSE IF items # {} THEN
           /\ storeTouched' = TRUE
           /\ \E item \in items :
                last' = [ok EXCEPT
                    !.keys = {"valid", "sessionId", "lastActivityAt",
                              "timeSinceActivity", "timeoutSeconds"},
                    !.valid = IsValid(item, now),
                    !.sessionId = sid,
                    !.lastActivityAt = item.lastActivityAt]
       ELSE
           /\ storeTouched' = TRUE
           /\ last' = [ok EXCEPT !.keys = {"valid", "reason"}, !.valid = FALSE,
                                 !.reason = "Session not found or inactive"]

\* lambda_handler with action = 'update_activity'.
\* err: "none", or the storage call that raises ("query", "write").
UpdateSessionActivity(sid, err) ==
    LET ok    == SuccessResponse("update_activity", NoLoan, sid)
        e500  == ErrorResponse("update_activity", 500, NoLoan, sid)
        fault == [e500 EXCEPT !.fault = TRUE]
        items == QueryBySessionId(sid)
    IN
    /\ UNCHANGED <<usedUuids, issued>>
    /\ IF sid = NoSid THEN
           /\ last' = [ErrorResponse("update_activity", 400, NoLoan, sid)
                          EXCEPT !.missing = TRUE]
           /\ UNCHANGED <<table, storeTouched>>
       ELSE IF ~tableConfigured THEN
           /\ last' = [ok EXCEPT !.keys = {"updated", "reason"}, !.updated = FALSE,
                                 !.reason = "Table not configured"]
           /\ UNCHANGED <<table, storeTouched>>
       ELSE IF err = "query" THEN
           /\ last' = fault
           /\ storeTouched' = TRUE
           /\ UNCHANGED table
       ELSE IF items # {} THEN
           /\ storeTouched' = TRUE
           /\ \E item \in items :
                IF err = "write"
                THEN /\ last' = fault
                     /\ UNCHANGED table
                ELSE /\ table' = (table \ {item}) \cup {TouchItem(item, now)}
                     /\ last' = [ok EXCEPT
                            !.keys = {"updated", "sessionId", "lastActivityAt"},
                            !.updated = TRUE,
                            !.sessionId = sid,
                            !.lastActivityAt = now]
       ELSE
           \* raise Exception('Session not found'), wrapped as 'Update error'
           /\ last' = [e500 EXCEPT !.reason = "Session not found"]
           /\ storeTouched' = TRUE
           /\ UNCHANGED table

-----------------------------------------------------------------------------
(* lambda_function.py and response_handler.validate_action *)

ValidActions == {"get_or_create_session", "validate_session", "update_activity"}
EventActions == ValidActions \cup {"", "delete_session"}   \* "" is no action

StorageErrors == {"none", "query", "write"}

\* a sessionId no session was ever given (its uuid is never drawn)
UnknownSid == [broker |-> "b1", user |-> "u1", tail |-> <<ChPortal, Dash, Dash>>]

\* the sessionId of a request: none, one the service never issued, a stored one
SidInputs == {NoSid, UnknownSid} \cup {it.sessionId : it \in table}

\* mutant of RejectInvalidAction: the ValueError reaches the generic handler
RejectInvalidActionAs500(action) ==
    /\ action \notin {"get_or_create_session", "validate_session", "update_activity"}
    /\ last' = ErrorResponse(action, 500, NoLoan, NoSid)
    /\ UNCHANGED <<table, usedUuids, storeTouched, issued>>

\* validate_action raises ValueError: create_error_response(400, ...)
RejectInvalidAction(action) ==
    /\ action \notin ValidActions
    /\ last' = ErrorResponse(action, 400, NoLoan, NoSid)
    /\ UNCHANGED <<table, usedUuids, storeTouched, issued>>

LambdaGetOrCreate ==
    \E broker \in Brokers, user \in Users,
       loan \in LoanIds \cup {NoLoan}, token \in Tokens,
       err \in StorageErrors, kmsOk \in BOOLEAN, n \in Nonces, u \in UUIDs :
        \* inputs the call does not read are fixed
        /\ (broker = "" \/ user = "") =>
                (token = "" /\ err = "none" /\ loan = NoLoan)
        /\ ~tableConfigured => (token = "" /\ err = "none")
        /\ (token = "" \/ ~keyConfigured) => (kmsOk /\ n = 1)
        /\ GetOrCreateSession(broker, user, loan, token, err, kmsOk, n, u)
        /\ UNCHANGED <<now, ticks, tableConfigured, keyConfigured>>
        /\ UNCHANGED <<wsVars, hmVars, voVars, restVars>>

\* loanIds one of which is the other followed by a hyphen and more: "1", "1-1"
HyphenLoanIds == {<<Digit1>>, <<Digit1, Dash, Digit1>>}

\* get_or_create_session requests of one user for the Portal and for loans
\* whose ids share a beginning
LambdaGetOrCreateLoan ==
    \E loan \in HyphenLoanIds \cup {NoLoan}, err \in StorageErrors, u \in UUIDs :
        /\ GetOrCreateSession("b1", "u1", loan, "", err, TRUE, 1, u)
        /\ UNCHANGED <<now, ticks, tableConfigured, keyConfigured>>
        /\ UNCHANGED <<wsVars, hmVars, voVars, restVars>>

LambdaValidate ==
    \E sid \in SidInputs, err \in BOOLEAN :
        /\ ValidateSession(sid, err)
        /\ UNCHANGED <<now, ticks, tableConfigured, keyConfigured>>
        /\ UNCHANGED <<wsVars, hmVars, voVars, restVars>>

LambdaUpdateActivity ==
    \E sid \in SidInputs, err \in StorageErrors :
        /\ UpdateSessionActivity(sid, err)
        /\ UNCHANGED <<now, ticks, tableConfigured, keyConfigured>>
        /\ UNCHANGED <<wsVars, hmVars, voVars, restVars>>

LambdaInvalidAction ==
    \E action \in EventActions :
        /\ RejectInvalidAction(action)
        /\ UNCHANGED <<now, ticks, tableConfigured, keyConfigured>>
        /\ UNCHANGED <<wsVars, hmVars, voVars, restVars>>

-----------------------------------------------------------------------------
(* The streaming chat bridge: InvokeWebSocketAgentLambda/src/lambda_function.py *)
(* and utils/auth.py.  Header values and keys are sequences of characters.  *)

None == [some |-> FALSE, val |-> <<>>]
Some(str) == [some |-> TRUE, val |-> str]

\* str.strip()
RECURSIVE LStrip(_)
LStrip(str) ==
    IF str = <<>> THEN str
    ELSE IF Head(str) = " " THEN LStrip(Tail(str))
    ELSE str

RECURSIVE RStrip(_)
RStrip(str) ==
    IF str = <<>> THEN str
    ELSE IF str[Len(str)] = " " THEN RStrip(SubSeq(str, 1, Len(str) - 1))
    ELSE str

Strip(str) == RStrip(LStrip(str))

\* str.lower()
LowerChar(c) ==
    CASE c = "A" -> "a" [] c = "U" -> "u" [] c = "T" -> "t" [] c = "H" -> "h"
      [] OTHER -> c

Lower(str) == [i \in 1..Len(str) |-> LowerChar(str[i])]

\* str.split(",")
RECURSIVE Split(_)
Split(str) ==
    LET commas == {i \in 1..Len(str) : str[i] = ","}
    IN  IF commas = {} THEN <<str>>
        ELSE LET i == CHOOSE k \in commas : \A j \in commas : k <= j
             IN  <<SubSeq(str, 1, i - 1)>> \o Split(SubSeq(str, i + 1, Len(str)))

\* [p.strip() for p in proto.split(",") if p.strip()]
StrippedParts(proto) ==
    LET raw == Split(proto)
        stripped == [i \in 1..Len(raw) |-> Strip(raw[i])]
    IN  SelectSeq(stripped, LAMBDA q : q # <<>>)

\* headers.get("Sec-WebSocket-Protocol") or headers.get("sec-websocket-protocol")
ProtocolHeader(event) ==
    IF event.headers.canonical.some /\ event.headers.canonical.val # <<>>
    THEN event.headers.canonical
    ELSE event.headers.lowercase

\* get_token_from_subprotocol
GetTokenFromSubprotocol(event) ==
    LET proto == ProtocolHeader(event)
    IN  IF ~proto.some \/ proto.val = <<>> THEN None
        ELSE LET parts == StrippedParts(proto.val)
             IN  IF Len(parts) >= 2 /\ Lower(parts[1]) = <<"a", "u", "t", "h">>
                 THEN Some(parts[2])
                 ELSE None

\* mutant of ValidateApiKey: the stored key is compared untrimmed
ValidateApiKeyStoredUntrimmed(token, secret) ==
    IF token = <<>> THEN FALSE
    ELSE IF ~secret.fetched THEN FALSE
    ELSE IF ~secret.key.some \/ secret.key.val = <<>> THEN FALSE
    ELSE Strip(token) = secret.key.val

\* validate_api_key; secret.fetched is FALSE when os.environ or get_secret raises
ValidateApiKey(token, secret) ==
    IF token = <<>> THEN FALSE
    ELSE IF ~secret.fetched THEN FALSE
    ELSE IF ~secret.key.some \/ secret.key.val = <<>> THEN FALSE
    ELSE Strip(token) = Strip(secret.key.val)

\* what handle_message returns (utils/websocket_handler.py)
HandleMessageStatus == {200, 400}

NoWsResp == [statusCode |-> 0, body |-> "", protocol |-> "", handled |-> FALSE]

\* lambda_handler of the bridge
LambdaHandler(event, resp) ==
    IF event.routeKey = "$connect" THEN
        LET token == GetTokenFromSubprotocol(event)
        IN  IF ~token.some \/ token.val = <<>>
            THEN resp = [NoWsResp EXCEPT !.statusCode = 401,
                                         !.body = "Auth token required"]
            ELSE IF ~ValidateApiKey(token.val, event.secret)
            THEN resp = [NoWsResp EXCEPT !.statusCode = 403,
                                         !.body = "Invalid token"]
            ELSE resp = [NoWsResp EXCEPT !.statusCode = 200, !.protocol = "auth"]
    ELSE IF event.routeKey = "$disconnect" THEN
        resp = [NoWsResp EXCEPT !.statusCode = 200]
    ELSE IF event.routeKey = "sendMessage" THEN
        \E code \in HandleMessageStatus :
            resp = [NoWsResp EXCEPT !.statusCode = code, !.handled = TRUE]
    ELSE resp = [NoWsResp EXCEPT !.statusCode = 404, !.body = "Not found"]

(* The events *)

Auth == <<"a", "u", "t", "h">>
Key1 == <<"k", "1">>
Key2 == <<"k", "2">>

\* the comma-separated pieces a client puts in the header
PartChoices ==
    {Auth, <<"A", "u", "t", "h">>, <<" ", "a", "u", "t", "h", " ">>,
     <<>>, <<" ">>, Key1, <<" ">> \o Key1 \o <<" ">>, Key2}

PartLists == UNION {[1..n -> PartChoices] : n \in 0..MaxParts}

RECURSIVE Join(_)
Join(parts) ==
    IF Len(parts) = 0 THEN <<>>
    ELSE IF Len(parts) = 1 THEN parts[1]
    ELSE parts[1] \o <<",">> \o Join(Tail(parts))

\* the secret store: the fetch raises, the secret has no api-key, or it has one
Secrets ==
    {[fetched |-> FALSE, key |-> None], [fetched |-> TRUE, key |-> None]}
    \cup {[fetched |-> TRUE, key |-> Some(k)] :
            k \in {<<>>, <<" ">>, Key1, <<" ">> \o Key1 \o <<" ">>, Key2}}

RouteKeys == {"$connect", "$disconnect", "sendMessage", "$default", ""}

HeaderSets(parts) ==
    {[canonical |-> None, lowercase |-> None],
     [canonical |-> Some(Join(parts)), lowercase |-> None],
     [canonical |-> None, lowercase |-> Some(Join(parts))]}

NoEvent ==
    [routeKey |-> "", parts |-> <<>>,
     headers |-> [canonical |-> None, lowercase |-> None],
     secret |-> [fetched |-> FALSE, key |-> None]]

WsInit ==
    /\ wsEvent = NoEvent
    /\ wsResp = NoWsResp

\* one invocation of the bridge's lambda_handler
Invoke(route, parts, headers, secret) ==
    /\ wsEvent' = [routeKey |-> route, parts |-> parts, headers |-> headers,
                   secret |-> secret]
    /\ LambdaHandler(wsEvent', wsResp')
    /\ UNCHANGED <<sessVars, hmVars, voVars, restVars>>

\* Invocations are independent of each other: a behaviour holds one.
Idle == wsResp = NoWsResp

Connect ==
    \E parts \in PartLists, secret \in Secrets :
        \E headers \in HeaderSets(parts) :
            /\ Idle
            /\ Invoke("$connect", parts, headers, secret)

\* the routes that read neither the header nor the secret
Disconnect ==
    /\ Idle
    /\ Invoke("$disconnect", <<>>, NoEvent.headers, NoEvent.secret)

SendMessage ==
    /\ Idle
    /\ Invoke("sendMessage", <<>>, NoEvent.headers, NoEvent.secret)

OtherRoute ==
    \E route \in RouteKeys \ {"$connect", "$disconnect", "sendMessage"} :
        /\ Idle
        /\ Invoke(route, <<>>, NoEvent.headers, NoEvent.secret)

-----------------------------------------------------------------------------
(* The streaming message handler: handle_message of                         *)
(* InvokeWebSocketAgentLambda/src/utils/websocket_handler.py, with           *)
(* get_session_id of utils/session_client.py.  A step is one iteration of   *)
(* one of its loops or one post_to_connection call; the except block runs   *)
(* in the step that raises.                                                 *)

\* len(chunk.split()) >= 5
WordsPerChunk == 5

\* body.get(field): absent, "", blank, or a padded value
FieldValues == {None, Some(<<>>), Some(<<" ">>), Some(<<" ", "b", " ">>)}

\* the event body: text json.loads rejects, or an object with the three fields
MalformedBody == [parsed |-> FALSE, brokerId |-> None, sysUserId |-> None,
                  message |-> None]

Bodies ==
    {MalformedBody}
    \cup [parsed : {TRUE}, brokerId : FieldValues, sysUserId : FieldValues,
          message : FieldValues]

\* (body.get(field) or "").strip()
FieldOrEmpty(field) == IF field.some THEN Strip(field.val) ELSE <<>>

\* mutant of MissingField: the message is checked before the ids
MissingFieldMessageFirst(body) ==
    IF FieldOrEmpty(body.message) = <<>> THEN "message"
    ELSE IF FieldOrEmpty(body.brokerId) = <<>> THEN "brokerId"
    ELSE IF FieldOrEmpty(body.sysUserId) = <<>> THEN "sysUserId"
    ELSE ""

\* the first of the required-field checks that fails, "" when none does
MissingField(body) ==
    IF FieldOrEmpty(body.brokerId) = <<>> THEN "brokerId"
    ELSE IF FieldOrEmpty(body.sysUserId) = <<>> THEN "sysUserId"
    ELSE IF FieldOrEmpty(body.message) = <<>> THEN "message"
    ELSE ""

\* the text of the error post for a missing field
RequiredError(field) ==
    CASE field = "brokerId" -> "brokerId is required"
      [] field = "sysUserId" -> "sysUserId is required"
      [] field = "message" -> "message is required"

\* get_session_id: the session service's id, or a fallback id when the service
\* is not configured, answers another status or the call raises
GetSessionId(serviceOk) == IF serviceOk THEN "service-session" ELSE "fallback-session"

(* Server-sent-event lines of the agent runtime's response *)

SseLine(kind, delta, data) == [kind |-> kind, delta |-> delta, data |-> data]

\* empty:    a keep-alive line (raw_line is empty)
\* other:    a line that does not start with "data: "
\* raw:      "data: " followed by text that is not JSON (data holds the text)
\* object:   a JSON object; delta is event.contentBlockDelta.delta.text and
\*           data its "data" member, each absent or a string
\* string:   a JSON string that is no Python literal
\* scalar:   a JSON number
\* badevent: a JSON object whose "event" member is not an object
LineChoices ==
    {SseLine("empty", None, None),
     SseLine("other", None, None),
     SseLine("raw", None, Some(<<" ">>)),
     SseLine("raw", None, Some(<<" ", "x", " ">>)),
     SseLine("object", Some(<<"x">>), None),
     SseLine("object", Some(<<"y">>), None),
     SseLine("object", Some(<<>>), Some(<<"y">>)),
     SseLine("object", None, Some(<<"x">>)),
     SseLine("string", None, Some(<<"y">>)),
     SseLine("scalar", None, None),
     SseLine("badevent", None, None)}

LineLists == UNION {[1..n -> LineChoices] : n \in 0..MaxLines}

\* lines 102-113: the line is passed over before any text is extracted
SkippedLine(line) ==
    \/ line.kind \in {"empty", "other"}
    \/ line.kind = "raw" /\ Strip(line.data.val) = <<>>

\* evt["event"].get(...) on a value that has no get
ExtractRaises(line) == line.kind = "badevent"

\* lines 115-143: the text of a "data: " line
ExtractText(line) ==
    CASE line.kind = "object" ->
            LET text == IF line.delta.some THEN line.delta.val ELSE <<>>
            IN  IF text = <<>> /\ line.data.some THEN line.data.val ELSE text
      [] line.kind = "string" -> line.data.val
      [] line.kind = "raw" -> Strip(line.data.val)
      [] OTHER -> <<>>

\* mutant of IsDuplicate: the text is compared with nothing
IsDuplicateNever(text, lastTextSent) == FALSE

\* text == last_text_sent
IsDuplicate(text, lastTextSent) == lastTextSent = Some(text)

(* The non-streaming response *)

\* str.split()
RECURSIVE SplitWs(_)
SplitWs(str) ==
    LET s == LStrip(str)
        blanks == {i \in 1..Len(s) : s[i] = " "}
        stop == IF blanks = {} THEN Len(s) + 1
                ELSE CHOOSE k \in blanks : \A j \in blanks : k <= j
    IN  IF s = <<>> THEN <<>>
        ELSE <<SubSeq(s, 1, stop - 1)>> \o SplitWs(SubSeq(s, stop, Len(s)))

WordChoices == {<<"a">>, <<"b", "c">>}

WordLists == UNION {[1..n -> WordChoices] : n \in 0..MaxWords}

RECURSIVE JoinWords(_, _)
JoinWords(words, sep) ==
    IF Len(words) = 0 THEN <<>>
    ELSE IF Len(words) = 1 THEN words[1]
    ELSE words[1] \o sep \o JoinWords(Tail(words), sep)

\* the 12-word response
TwelveWords ==
    [i \in 1..12 |-> IF i % 2 = 1 THEN <<"a">> ELSE <<"b", "c">>]

\* the texts the agent runtime answers with
Messages ==
    {pad[1] \o JoinWords(ws, sep) \o pad[2] :
        ws \in WordLists, sep \in {<<" ">>, <<" ", " ">>},
        pad \in {<<<<>>, <<>>>>, <<<<" ">>, <<" ">>>>}}
    \cup {JoinWords(TwelveWords, <<" ">>)}

\* mutant of ChunkIsFull: a chunk is posted one word late
ChunkIsFullLate(chunk, i, n) ==
    Len(SplitWs(chunk)) >= WordsPerChunk + 1 \/ i = n - 1

\* len(chunk.split()) >= 5 or i == len(words) - 1
ChunkIsFull(chunk, i, n) ==
    Len(SplitWs(chunk)) >= WordsPerChunk \/ i = n - 1

\* the runtime's response: an event stream of lines, or a body to read(),
\* message being clean_message of lines 173-181
Responses ==
    {[opened |-> TRUE, sse |-> TRUE, lines |-> ls, message |-> <<>>] :
        ls \in LineLists}
    \cup {[opened |-> TRUE, sse |-> FALSE, lines |-> <<>>, message |-> m] :
            m \in Messages}

\* no response: invoke_agent_runtime was not called or raised
NoResponse == [opened |-> FALSE, sse |-> FALSE, lines |-> <<>>, message |-> <<>>]

(* post_to_connection *)

ChunkPost(text, ok) ==
    [type |-> "chunk", chunk |-> text, error |-> "",
     sessionId |-> hmSessionId, sysUserId |-> FieldOrEmpty(hmBody.sysUserId),
     ok |-> ok]

EndPost(ok) ==
    [type |-> "end", chunk |-> <<>>, error |-> "",
     sessionId |-> hmSessionId, sysUserId |-> FieldOrEmpty(hmBody.sysUserId),
     ok |-> ok]

ErrorPost(message, ok) ==
    [type |-> "error", chunk |-> <<>>, error |-> message,
     sessionId |-> "", sysUserId |-> <<>>, ok |-> ok]

\* mutant of ReturnStatus: every path returns 200
ReturnStatusAlways200(rejected) == 200

\* lines 41, 49, 57 and 221: the statusCode handle_message returns
ReturnStatus(rejected) == IF rejected THEN 400 ELSE 200

HmInit ==
    /\ hmPc = "idle"
    /\ hmBody = MalformedBody
    /\ hmResp = NoResponse
    /\ hmWords = <<>>
    /\ hmI = 0
    /\ hmLastTextSent = None
    /\ hmChunk = <<>>
    /\ hmPosts = <<>>
    /\ hmSessionId = ""
    /\ hmInvoked = FALSE
    /\ hmRaised = FALSE
    /\ hmRet = 0

\* mutant of Except: a failed error post is tried again
ExceptRetry(posts) ==
    \E ok \in BOOLEAN :
        /\ hmPosts' = IF ok THEN Append(posts, ErrorPost("Server error", ok))
                      ELSE posts \o <<ErrorPost("Server error", FALSE),
                                      ErrorPost("Server error", TRUE)>>
        /\ hmRaised' = TRUE
        /\ hmRet' = ReturnStatus(FALSE)
        /\ hmPc' = "done"

\* lines 211-221: the except block after posts were made, and the return
Except(posts) ==
    \E ok \in BOOLEAN :
        /\ hmPosts' = Append(posts, ErrorPost("Server error", ok))
        /\ hmRaised' = TRUE
        /\ hmRet' = ReturnStatus(FALSE)
        /\ hmPc' = "done"

\* mutant of PostThen: a failed post is passed over
PostThenSwallow(post, cont) ==
    hmPosts' = Append(hmPosts, post) /\ cont

\* a post_to_connection call inside the try block, then cont or the except block
PostThen(post, cont) ==
    IF post.ok THEN hmPosts' = Append(hmPosts, post) /\ cont
    ELSE Except(Append(hmPosts, post))

\* line 22: json.loads(body) raises
HmMalformed ==
    /\ hmPc = "idle"
    /\ hmBody' = MalformedBody
    /\ Except(hmPosts)
    /\ UNCHANGED <<hmResp, hmWords, hmI, hmLastTextSent, hmChunk, hmSessionId,
                   hmInvoked>>
    /\ UNCHANGED <<sessVars, wsVars, voVars, restVars>>

\* lines 34-57: a required field is missing
HmReject ==
    /\ hmPc = "idle"
    /\ \E body \in Bodies, ok \in BOOLEAN :
        /\ body.parsed
        /\ MissingField(body) # ""
        /\ hmBody' = body
        /\ PostThen(ErrorPost(RequiredError(MissingField(body)), ok),
                    hmRet' = ReturnStatus(TRUE) /\ hmPc' = "done"
                    /\ UNCHANGED hmRaised)
        /\ UNCHANGED <<hmResp, hmWords, hmI, hmLastTextSent, hmChunk,
                       hmSessionId, hmInvoked>>
        /\ UNCHANGED <<sessVars, wsVars, voVars, restVars>>

\* lines 59-96 and 170-183: the session is resolved, the runtime invoked and
\* its response opened
HmStart ==
    /\ hmPc = "idle"
    /\ \E body \in Bodies, serviceOk \in BOOLEAN, agentOk \in BOOLEAN,
          resp \in Responses :
        /\ body.parsed
        /\ MissingField(body) = ""
        /\ ~agentOk => resp = NoResponse
        /\ hmBody' = body
        /\ hmSessionId' = GetSessionId(serviceOk)
        /\ hmInvoked' = TRUE
        /\ IF agentOk
           THEN /\ hmResp' = resp
                /\ hmWords' = IF resp.sse THEN <<>>
                              ELSE SplitWs(Strip(resp.message))
                /\ hmPc' = IF resp.sse THEN "stream" ELSE "fallback"
                /\ UNCHANGED <<hmPosts, hmRaised, hmRet>>
           ELSE /\ Except(hmPosts)
                /\ UNCHANGED <<hmResp, hmWords>>
        /\ UNCHANGED <<hmI, hmLastTextSent, hmChunk>>
        /\ UNCHANGED <<sessVars, wsVars, voVars, restVars>>

\* lines 101-166: one iteration of the loop over iter_lines()
HmStreamLine ==
    /\ hmPc = "stream"
    /\ hmI < Len(hmResp.lines)
    /\ hmI' = hmI + 1
    /\ LET line == hmResp.lines[hmI + 1]
           text == ExtractText(line)
       IN  IF SkippedLine(line)
           THEN UNCHANGED <<hmPc, hmLastTextSent, hmPosts, hmRaised, hmRet>>
           ELSE IF ExtractRaises(line)
           THEN Except(hmPosts) /\ UNCHANGED hmLastTextSent
           ELSE IF text = <<>> \/ IsDuplicate(text, hmLastTextSent)
           THEN UNCHANGED <<hmPc, hmLastTextSent, hmPosts, hmRaised, hmRet>>
           ELSE /\ hmLastTextSent' = Some(text)
                /\ \E ok \in BOOLEAN :
                     PostThen(ChunkPost(text, ok),
                              UNCHANGED <<hmPc, hmRaised, hmRet>>)
    /\ UNCHANGED <<hmBody, hmResp, hmWords, hmChunk, hmSessionId, hmInvoked>>
    /\ UNCHANGED <<sessVars, wsVars, voVars, restVars>>

\* lines 185-198: one iteration of the loop over the words
HmFallbackWord ==
    /\ hmPc = "fallback"
    /\ hmI < Len(hmWords)
    /\ hmI' = hmI + 1
    /\ LET chunk == hmChunk \o hmWords[hmI + 1] \o <<" ">>
       IN  IF ChunkIsFull(chunk, hmI, Len(hmWords))
           THEN /\ hmChunk' = <<>>
                /\ \E ok \in BOOLEAN :
                     PostThen(ChunkPost(Strip(chunk), ok),
                              UNCHANGED <<hmPc, hmRaised, hmRet>>)
           ELSE /\ hmChunk' = chunk
                /\ UNCHANGED <<hmPc, hmPosts, hmRaised, hmRet>>
    /\ UNCHANGED <<hmBody, hmResp, hmWords, hmLastTextSent, hmSessionId, hmInvoked>>
    /\ UNCHANGED <<sessVars, wsVars, voVars, restVars>>

\* lines 200-209 and 221: the loop is over, the end message is posted
HmEnd ==
    /\ \/ hmPc = "stream" /\ hmI = Len(hmResp.lines)
       \/ hmPc = "fallback" /\ hmI = Len(hmWords)
    /\ \E ok \in BOOLEAN :
         PostThen(EndPost(ok),
                  hmRet' = ReturnStatus(FALSE) /\ hmPc' = "done"
                  /\ UNCHANGED hmRaised)
    /\ UNCHANGED <<hmBody, hmResp, hmWords, hmI, hmLastTextSent, hmChunk,
                   hmSessionId, hmInvoked>>
    /\ UNCHANGED <<sessVars, wsVars, voVars, restVars>>

-----------------------------------------------------------------------------
(* The voice bridge's output adapter: WebSocketOutput of                    *)
(* strands-bidi/scout_nova_agent.py (the accumulating variant; the          *)
(* tool-failure counter of agent/bidi_websocket_server.py is the same).     *)
(* A step is one call of __call__ with an output event.  Tool results carry *)
(* one content entry, as the tool framework produces them.                  *)

\* self.MAX_TOOL_RETRIES
MAX_TOOL_RETRIES == 3

(* Output events *)

NoResult == [toolUseId |-> "", status |-> "", text |-> ""]

OutputEvent(type, role, text, transcript, audio, result) ==
    [type |-> type, role |-> role, text |-> text, transcript |-> transcript,
     audio |-> audio, result |-> result]

\* bidi_transcript_stream: role "user" or absent (""), text and transcript
\* each absent, empty or a string
TranscriptEvents ==
    {OutputEvent("bidi_transcript_stream", role, f[1], f[2], None, NoResult) :
        role \in {"user", ""},
        f \in {<<Some(<<"a">>), None>>,
               <<None, Some(<<"b">>)>>,
               <<Some(<<>>), None>>}}

InterruptionEvent ==
    OutputEvent("bidi_interruption", "", None, None, None, NoResult)

AudioEvent ==
    OutputEvent("bidi_audio_stream", "", None, None, Some(<<"p">>), NoResult)

ToolUseEvent ==
    OutputEvent("tool_use_stream", "", None, None, None, NoResult)

\* tool_result: the result's toolUseId, its status and the kind of text in
\* content[0]: plain, holding "error":null, or holding "error":"
ToolResultEvents ==
    {OutputEvent("tool_result", "", None, None, None,
                 [toolUseId |-> id, status |-> r[1], text |-> r[2]]) :
        id \in {"t1", "t2"},
        r \in {<<"error", "plain">>, <<"success", "plain">>,
               <<"success", "errorNull">>, <<"success", "errorBody">>}}

\* event.get("role", "ASSISTANT").upper()
Role(event) == IF event.role = "" THEN "ASSISTANT" ELSE "USER"

\* event.get("text") or event.get("transcript") or ""
Delta(event) ==
    IF event.text.some /\ event.text.val # <<>> THEN event.text.val
    ELSE IF event.transcript.some /\ event.transcript.val # <<>>
    THEN event.transcript.val
    ELSE <<>>

\* lines 308-313: the result shows an error
IsError(result) ==
    result.status = "error" \/ result.text = "errorBody"

\* mutant of LimitReached: the adapter stops one failure later
LimitReachedLate(count) == count > MAX_TOOL_RETRIES

\* error_count >= self.MAX_TOOL_RETRIES
LimitReached(count) == count >= MAX_TOOL_RETRIES

(* Messages put on output_queue; at is the number of the event that caused it *)

ContentId(n) == [name |-> "content", n |-> n]
InterruptionSignal == [name |-> "interruption-signal", n |-> 0]
NoContentId == [name |-> "", n |-> 0]

QueueMessage(kind, role, content, contentId, at) ==
    [kind |-> kind, role |-> role, content |-> content, contentId |-> contentId,
     at |-> at]

\* the content '{"interrupted": true}'
InterruptedMarker == <<"{", "i", "}">>

\* mutant of Accumulate: the delta replaces the text gathered so far
AccumulateReplace(text, delta) == delta

\* self.accumulated_text += delta
Accumulate(text, delta) == text \o delta

VoInit ==
    /\ voActive = TRUE
    /\ voCounter = 0
    /\ voContentId = 0
    /\ voRole = ""
    /\ voText = <<>>
    /\ voErrors = [id \in {"t1", "t2"} |-> 0]
    /\ voQueue = <<>>
    /\ voLog = <<>>
    /\ voTerminated = FALSE

\* lines 205-259: a transcript event
OnTranscript(event) ==
    LET role == Role(event)
        delta == Delta(event)
        at == Len(voLog) + 1
        changed == voRole # "" /\ voRole # role
        closed == IF changed
                  THEN Append(voQueue, QueueMessage("contentEnd", "", <<>>,
                                                    ContentId(voContentId), at))
                  ELSE voQueue
        fresh == changed \/ voContentId = 0
        counter == IF fresh THEN voCounter + 1 ELSE voCounter
        id == IF fresh THEN counter ELSE voContentId
        started == IF fresh
                   THEN Append(closed, QueueMessage("contentStart", role, <<>>,
                                                    ContentId(id), at))
                   ELSE closed
        text == Accumulate(IF fresh THEN <<>> ELSE voText, delta)
    IN  IF delta = <<>>
        THEN UNCHANGED <<voCounter, voContentId, voRole, voText, voQueue>>
        ELSE /\ voCounter' = counter
             /\ voContentId' = id
             /\ voRole' = role
             /\ voText' = text
             /\ voQueue' = Append(started, QueueMessage("textOutput", role, text,
                                                        ContentId(id), at))

\* mutant of OnInterruption: the interruption closes the open content block
OnInterruptionClosesBlock ==
    /\ voQueue' = voQueue
                  \o (IF voContentId # 0
                      THEN <<QueueMessage("contentEnd", "", <<>>,
                                          ContentId(voContentId), Len(voLog) + 1)>>
                      ELSE <<>>)
                  \o <<QueueMessage("textOutput", "ASSISTANT", InterruptedMarker,
                                    InterruptionSignal, Len(voLog) + 1)>>
    /\ voContentId' = 0
    /\ voRole' = ""
    /\ voText' = <<>>
    /\ UNCHANGED voCounter

\* lines 262-278: an interruption event
OnInterruption ==
    /\ voQueue' = Append(voQueue,
                         QueueMessage("textOutput", "ASSISTANT", InterruptedMarker,
                                      InterruptionSignal, Len(voLog) + 1))
    /\ UNCHANGED <<voCounter, voContentId, voRole, voText>>

\* lines 301-328: a tool result
OnToolResult(result) ==
    IF IsError(result)
    THEN LET count == voErrors[result.toolUseId] + 1
         IN  /\ voErrors' = [voErrors EXCEPT ![result.toolUseId] = count]
             /\ IF LimitReached(count)
                THEN voActive' = FALSE /\ voTerminated' = TRUE
                ELSE UNCHANGED <<voActive, voTerminated>>
    ELSE UNCHANGED <<voErrors, voActive, voTerminated>>

\* WebSocketOutput.__call__(event)
Call(event) ==
    /\ voLog' = Append(voLog, event)
    /\ IF ~voActive
       THEN UNCHANGED <<voActive, voCounter, voContentId, voRole, voText,
                        voErrors, voQueue, voTerminated>>
       ELSE CASE event.type = "bidi_audio_stream" ->
                    /\ voQueue' = Append(voQueue,
                                         QueueMessage("audioOutput", "", event.audio.val,
                                                      NoContentId, Len(voLog) + 1))
                    /\ UNCHANGED <<voActive, voCounter, voContentId, voRole, voText,
                                   voErrors, voTerminated>>
              [] event.type = "bidi_transcript_stream" ->
                    /\ OnTranscript(event)
                    /\ UNCHANGED <<voActive, voErrors, voTerminated>>
              [] event.type = "bidi_interruption" ->
                    /\ OnInterruption
                    /\ UNCHANGED <<voActive, voErrors, voTerminated>>
              [] event.type = "tool_use_stream" ->
                    /\ voQueue' = Append(voQueue,
                                         QueueMessage("toolUse", "", <<>>,
                                                      NoContentId, Len(voLog) + 1))
                    /\ UNCHANGED <<voActive, voCounter, voContentId, voRole, voText,
                                   voErrors, voTerminated>>
              [] event.type = "tool_result" ->
                    /\ OnToolResult(event.result)
                    /\ UNCHANGED <<voCounter, voContentId, voRole, voText, voQueue>>
    /\ UNCHANGED <<sessVars, wsVars, hmVars, restVars>>

(* The events of a voice session *)

Transcript ==
    /\ Len(voLog) < MaxVoiceEvents
    /\ \E event \in TranscriptEvents : Call(event)

Interruption ==
    /\ Len(voLog) < MaxVoiceEvents
    /\ Call(InterruptionEvent)

Audio ==
    /\ Len(voLog) < MaxVoiceEvents
    /\ Call(AudioEvent)

ToolUse ==
    /\ Len(voLog) < MaxToolEvents
    /\ Call(ToolUseEvent)

ToolResult ==
    /\ Len(voLog) < MaxToolEvents
    /\ \E event \in ToolResultEvents : Call(event)

-----------------------------------------------------------------------------
(* One connection of the voice bridge with custom adapters:                 *)
(* handle_websocket, websocket_receiver and websocket_sender of             *)
(* strands-bidi/scout_nova_agent.py (agent/bidi_websocket_server.py has the *)
(* same three functions).  The agent run is the framework's; it may put     *)
(* output events, take input, complete or fail at any time, and a cancelled *)
(* run ends.                                                                *)

CwInit ==
    /\ cwPc = "start"
    /\ cwReceiver = "none"
    /\ cwSender = "none"
    /\ cwAgent = "none"
    /\ cwIsActive = TRUE
    /\ cwInput = <<>>
    /\ cwOutput = <<>>
    /\ cwSent = <<>>
    /\ cwOutcome = ""
    /\ cwEscaped = FALSE
    /\ cwLog = <<>>

\* the record of the step: the event it put on output_queue, and the
\* clearing of is_active
LogStep ==
    cwLog' = cwLog
        \o (IF Len(cwOutput') > Len(cwOutput)
            THEN <<cwOutput'[Len(cwOutput')]>> ELSE <<>>)
        \o (IF cwIsActive /\ ~cwIsActive' THEN <<"shutdown">> ELSE <<>>)

\* lines 426-476: tools, model, agent, the three tasks; a failure is caught
\* by the outer except
HwSetup ==
    /\ cwPc = "start"
    /\ \E ok \in BOOLEAN :
        IF ok
        THEN /\ cwPc' = "waiting"
             /\ cwReceiver' = "running"
             /\ cwSender' = "running"
             /\ cwAgent' = "running"
             /\ cwOutput' = Append(cwOutput, "connectionStart")
             /\ UNCHANGED <<cwIsActive, cwInput, cwSent, cwOutcome, cwEscaped>>
        ELSE /\ cwPc' = "returned"
             /\ UNCHANGED <<cwReceiver, cwSender, cwAgent, cwIsActive, cwInput,
                            cwOutput, cwSent, cwOutcome, cwEscaped>>
    /\ LogStep
    /\ UNCHANGED cwOthers

\* websocket_receiver: one message of the client
ReceiverMessage ==
    /\ cwReceiver = "running"
    /\ \E message \in {"audioInput", "emptyAudio", "sessionEnd", "other", "invalid"} :
        IF ~cwIsActive
        THEN /\ cwReceiver' = "done"
             /\ cwInput' = Append(cwInput, "None")
             /\ UNCHANGED cwIsActive
        ELSE CASE message = "audioInput" ->
                      /\ Len(cwInput) < MaxQueue
                      /\ cwInput' = Append(cwInput, "audio")
                      /\ UNCHANGED <<cwReceiver, cwIsActive>>
               [] message = "sessionEnd" ->
                      /\ cwInput' = cwInput \o <<"None", "None">>
                      /\ cwIsActive' = FALSE
                      /\ cwReceiver' = "done"
               [] OTHER ->
                      UNCHANGED <<cwReceiver, cwIsActive, cwInput>>
    /\ UNCHANGED <<cwPc, cwSender, cwAgent, cwOutput, cwSent, cwOutcome, cwEscaped>>
    /\ LogStep
    /\ UNCHANGED cwOthers

\* websocket_receiver: the connection closes or receiving fails
ReceiverClosed ==
    /\ cwReceiver = "running"
    /\ cwReceiver' = "done"
    /\ cwIsActive' = FALSE
    /\ cwInput' = Append(cwInput, "None")
    /\ UNCHANGED <<cwPc, cwSender, cwAgent, cwOutput, cwSent, cwOutcome, cwEscaped>>
    /\ LogStep
    /\ UNCHANGED cwOthers

\* websocket_sender: one turn of its loop with something to do
SenderStep ==
    /\ cwSender = "running"
    /\ \/ /\ ~cwIsActive
          /\ cwSender' = "done"
          /\ UNCHANGED <<cwIsActive, cwOutput, cwSent>>
       \/ /\ cwIsActive
          /\ cwOutput # <<>>
          /\ cwOutput' = Tail(cwOutput)
          /\ IF Head(cwOutput) = "None"
             THEN /\ cwSender' = "done"
                  /\ cwIsActive' = FALSE
                  /\ UNCHANGED cwSent
             ELSE \E sent \in BOOLEAN :
                      IF sent
                      THEN /\ cwSent' = Append(cwSent, Head(cwOutput))
                           /\ UNCHANGED <<cwSender, cwIsActive>>
                      ELSE /\ cwSender' = "done"
                           /\ cwIsActive' = FALSE
                           /\ UNCHANGED cwSent
    /\ UNCHANGED <<cwPc, cwReceiver, cwAgent, cwInput, cwOutcome, cwEscaped>>
    /\ LogStep
    /\ UNCHANGED cwOthers

\* the events WebSocketOutput puts on output_queue
OutputKinds == {"textOutput", "audioOutput"}

\* the agent run puts an output event through WebSocketOutput
AgentOutput ==
    /\ cwAgent = "running"
    /\ Len(cwOutput) + Len(cwSent) <= MaxQueue
    /\ \E event \in OutputKinds : cwOutput' = Append(cwOutput, event)
    /\ UNCHANGED <<cwPc, cwReceiver, cwSender, cwAgent, cwIsActive, cwInput,
                   cwSent, cwOutcome, cwEscaped>>
    /\ LogStep
    /\ UNCHANGED cwOthers

\* the agent run takes an input through WebSocketInput
AgentInput ==
    /\ cwAgent = "running"
    /\ cwInput # <<>>
    /\ cwInput' = Tail(cwInput)
    /\ UNCHANGED <<cwPc, cwReceiver, cwSender, cwAgent, cwIsActive, cwOutput,
                   cwSent, cwOutcome, cwEscaped>>
    /\ LogStep
    /\ UNCHANGED cwOthers

\* the agent run completes or fails, or its cancellation takes effect
AgentFinish ==
    /\ cwAgent \in {"running", "cancelling"}
    /\ cwAgent' = "done"
    /\ \E outcome \in {"completed", "failed", "cancelled"} :
        /\ outcome = "cancelled" => cwAgent = "cancelling"
        /\ outcome = "completed" => cwAgent = "running"
        /\ cwOutcome' = outcome
    /\ UNCHANGED <<cwPc, cwReceiver, cwSender, cwIsActive, cwInput, cwOutput,
                   cwSent, cwEscaped>>
    /\ LogStep
    /\ UNCHANGED cwOthers

\* lines 486-498: asyncio.wait returns; the agent is cancelled only when the
\* receiver is among the finished tasks
HwWake ==
    /\ cwPc = "waiting"
    /\ cwReceiver = "done" \/ cwAgent = "done"
    /\ IF cwReceiver = "done"
       THEN /\ cwPc' = "awaitAgent"
            /\ cwAgent' = IF cwAgent = "running" THEN "cancelling" ELSE cwAgent
       ELSE /\ cwPc' = "cleanup"
            /\ UNCHANGED cwAgent
    /\ UNCHANGED <<cwReceiver, cwSender, cwIsActive, cwInput, cwOutput,
                   cwSent, cwOutcome, cwEscaped>>
    /\ LogStep
    /\ UNCHANGED cwOthers

\* lines 496-506: await agent_task; CancelledError and Exception are caught
HwAwaitAgent ==
    /\ cwPc = "awaitAgent"
    /\ cwAgent = "done"
    /\ cwPc' = "cleanup"
    /\ UNCHANGED <<cwReceiver, cwSender, cwAgent, cwIsActive, cwInput, cwOutput,
                   cwSent, cwOutcome, cwEscaped>>
    /\ LogStep
    /\ UNCHANGED cwOthers

\* lines 509-511: is_active.clear() and the two sentinels
HwCleanup ==
    /\ cwPc = "cleanup"
    /\ cwPc' = "gather"
    /\ cwIsActive' = FALSE
    /\ cwInput' = Append(cwInput, "None")
    /\ cwOutput' = Append(cwOutput, "None")
    /\ UNCHANGED <<cwReceiver, cwSender, cwAgent, cwSent, cwOutcome, cwEscaped>>
    /\ LogStep
    /\ UNCHANGED cwOthers

\* lines 514-521: gather(sender_task) and return
HwGather ==
    /\ cwPc = "gather"
    /\ cwSender = "done"
    /\ cwPc' = "returned"
    /\ UNCHANGED <<cwReceiver, cwSender, cwAgent, cwIsActive, cwInput, cwOutput,
                   cwSent, cwOutcome, cwEscaped>>
    /\ LogStep
    /\ UNCHANGED cwOthers

-----------------------------------------------------------------------------
(* The Gateway tool set of one voice server process.  The process runs one *)
(* of three servers:                                                        *)
(*   "managed": strands-bidi/server.py, whose lifespan calls get_tools      *)
(*              before connections are served and whose connections call it *)
(*              again;                                                      *)
(*   "raw":     direct-bedrock/scout_nova_agent.py, the same get_tools,     *)
(*              called by each connection only;                            *)
(*   "custom":  strands-bidi/scout_nova_agent.py, whose handle_websocket    *)
(*              loads the tools into a local variable.                     *)
(* Connections run on the one event loop; a step is the code between two    *)
(* awaits.                                                                  *)

Variants == {"managed", "raw", "custom"}

Connections == 1..MaxConnections

GtInit ==
    /\ gtTools = 0
    /\ gtLoads = 0
    /\ gtPc = [c \in Connections |-> "new"]
    /\ gtUsed = [c \in Connections |-> 0]
    /\ gtVariant = ""

\* the server starts; the managed server pre-loads the tools and carries on
\* when that fails
ProcessStart ==
    /\ gtVariant = ""
    /\ \E variant \in Variants, preloaded \in BOOLEAN :
        /\ gtVariant' = variant
        /\ IF variant = "managed" /\ preloaded
           THEN gtTools' = 1 /\ gtLoads' = 1
           ELSE UNCHANGED <<gtTools, gtLoads>>
    /\ UNCHANGED <<gtPc, gtUsed>>
    /\ UNCHANGED gtOthers

\* get_tools up to its await: the test of _tools and, when it is None,
\* create_mcp_client and the start of load_gateway_tools
GetToolsEnter(c) ==
    /\ gtVariant # ""
    /\ gtPc[c] = "new"
    /\ IF gtVariant = "custom" \/ gtTools = 0
       THEN /\ gtPc' = [gtPc EXCEPT ![c] = "loading"]
            /\ UNCHANGED gtUsed
       ELSE /\ gtPc' = [gtPc EXCEPT ![c] = "running"]
            /\ gtUsed' = [gtUsed EXCEPT ![c] = gtTools]
    /\ UNCHANGED <<gtTools, gtLoads, gtVariant>>
    /\ UNCHANGED gtOthers

\* load_gateway_tools returns a new list: _tools is assigned and returned
GetToolsLoaded(c) ==
    /\ gtPc[c] = "loading"
    /\ gtLoads' = gtLoads + 1
    /\ gtTools' = IF gtVariant = "custom" THEN gtTools ELSE gtLoads + 1
    /\ gtUsed' = [gtUsed EXCEPT ![c] = gtLoads + 1]
    /\ gtPc' = [gtPc EXCEPT ![c] = "running"]
    /\ UNCHANGED gtVariant
    /\ UNCHANGED gtOthers

\* load_gateway_tools raises: the connection ends, _tools stays as it is
GetToolsFailed(c) ==
    /\ gtPc[c] = "loading"
    /\ gtPc' = [gtPc EXCEPT ![c] = "closed"]
    /\ UNCHANGED <<gtTools, gtLoads, gtUsed, gtVariant>>
    /\ UNCHANGED gtOthers

\* the connection's agent run ends
ConnectionEnds(c) ==
    /\ gtPc[c] = "running"
    /\ gtPc' = [gtPc EXCEPT ![c] = "closed"]
    /\ UNCHANGED <<gtTools, gtLoads, gtUsed, gtVariant>>
    /\ UNCHANGED gtOthers

-----------------------------------------------------------------------------
(* The warehouse connection cache: connect_to_snowflake of                 *)
(* Tools/SnowflakeQueryParallelLambda/src/utils/snowflake_utils.py.  The    *)
(* Lambda container runs one invocation at a time, so CONNECTION_LOCK is    *)
(* False whenever the function is entered.  Connections are numbered in the *)
(* order they are established.                                              *)

\* CONNECTION_TTL
CONNECTION_TTL == 3600

\* the clock advances in halves of the TTL
TickSeconds == CONNECTION_TTL \div 2

NoCall ==
    [kind |-> "none", conn |-> 0, at |-> 0, cachedBefore |-> 0,
     sinceCreated |-> 0, sinceLast |-> 0, closedBefore |-> FALSE,
     checkRaised |-> FALSE]

SfInit ==
    /\ sfCached = 0
    /\ sfLastTime = 0
    /\ sfNow = 0
    /\ sfConns = <<>>
    /\ sfCall = NoCall

\* time.time() moves on
SfTick ==
    /\ sfNow < MaxSfTicks * TickSeconds
    /\ sfNow' = sfNow + TickSeconds
    /\ UNCHANGED <<sfCached, sfLastTime, sfConns, sfCall, whVars>>
    /\ UNCHANGED sfOthers

\* a connection is closed, by the handler's final step or by the server
SfClosed ==
    /\ \E id \in 1..Len(sfConns) :
        /\ ~sfConns[id].closed
        /\ sfConns' = [sfConns EXCEPT ![id].closed = TRUE]
    /\ UNCHANGED <<sfCached, sfLastTime, sfNow, sfCall, whVars>>
    /\ UNCHANGED sfOthers

\* mutant of Reusable: a connection used exactly one TTL ago still counts
ReusableInclusive(cached, lastTime, currentTime) ==
    cached # 0 /\ (currentTime - lastTime) <= CONNECTION_TTL

\* CACHED_CONNECTION and (current_time - LAST_CONNECTION_TIME) < CONNECTION_TTL
Reusable(cached, lastTime, currentTime) ==
    cached # 0 /\ (currentTime - lastTime) < CONNECTION_TTL

\* the outcome of connect_to_snowflake in the current state: checkRaises
\* says is_closed() raises, connected says one of the two connection
\* attempts succeeds
ConnectOutcome(checkRaises, connected) ==
    LET inWindow == Reusable(sfCached, sfLastTime, sfNow)
        closed == sfCached # 0 /\ sfConns[sfCached].closed
        facts == [at |-> sfNow,
                  cachedBefore |-> sfCached,
                  sinceCreated |-> IF sfCached = 0 THEN 0
                                   ELSE sfNow - sfConns[sfCached].created,
                  sinceLast |-> sfNow - sfLastTime,
                  closedBefore |-> closed,
                  checkRaised |-> inWindow /\ checkRaises]
        id == Len(sfConns) + 1
    IN  IF inWindow /\ ~checkRaises /\ ~closed
        THEN [call |-> facts @@ [kind |-> "reused", conn |-> sfCached],
              cached |-> sfCached, lastTime |-> sfNow, conns |-> sfConns]
        ELSE IF connected
        THEN [call |-> facts @@ [kind |-> "fresh", conn |-> id],
              cached |-> id, lastTime |-> sfNow,
              conns |-> Append(sfConns, [created |-> sfNow, closed |-> FALSE])]
        ELSE [call |-> facts @@ [kind |-> "raised", conn |-> 0],
              cached |-> IF inWindow /\ checkRaises THEN 0 ELSE sfCached,
              lastTime |-> sfLastTime, conns |-> sfConns]

\* connect_to_snowflake(), as the warm-up at module load calls it
ConnectToSnowflake ==
    /\ Len(sfConns) < MaxConns
    /\ \E checkRaises \in BOOLEAN, connected \in BOOLEAN :
        LET c == ConnectOutcome(checkRaises, connected)
        IN  /\ sfCall' = c.call
            /\ sfCached' = c.cached
            /\ sfLastTime' = c.lastTime
            /\ sfConns' = c.conns
    /\ UNCHANGED <<sfNow, whVars>>
    /\ UNCHANGED sfOthers

-----------------------------------------------------------------------------
(* The synchronous warehouse tool: lambda_handler of                       *)
(* Tools/SnowflakeQueryParallelLambda/src/lambda_function.py.  An           *)
(* invocation is one step: the container runs one at a time.                *)

WhEvent(source, detailType, query, sysUserId, queryType) ==
    [source |-> source, detailType |-> detailType, query |-> query,
     sys_user_id |-> sysUserId, query_type |-> queryType]

\* the scheduled warm-up event
WarmupEvent == WhEvent("aws.events", "Scheduled Event", "", "", "")

\* events: the warm-up pair whole or in part, a literal query, and the
\* parameters absent (""), given, or naming an unknown report
WhEvents ==
    {WarmupEvent, WhEvent("aws.events", "", "", "7", "active_pipeline"),
     WhEvent("", "", "SELECT 1", "", "")}
    \cup {WhEvent("", "", "", sysUserId, queryType) :
            sysUserId \in {"", "7"},
            queryType \in {"", "active_pipeline", "funded_loans", "other"}}

\* event.get("source") == "aws.events" and event.get("detail-type") == "Scheduled Event"
IsWarmup(event) ==
    event.source = "aws.events" /\ event.detailType = "Scheduled Event"

WhResponse(statusCode, error, field, rows) ==
    [statusCode |-> statusCode, error |-> error, field |-> field, rows |-> rows]

\* the reports the tool knows
ValidTypes == {"active_pipeline", "funded_loans"}

\* lines 52-103 after the session is set up: the parameter checks and the
\* query; queryOk says execute_snowflake_query returns
SyncQuery(event, queryOk) ==
    IF event.query # ""
    THEN IF queryOk THEN WhResponse(200, "", "", "rows of the query")
         ELSE WhResponse(500, "query failed", "", "")
    ELSE IF event.sys_user_id = ""
    THEN WhResponse(500, "Missing required parameter", "sys_user_id", "")
    ELSE IF event.query_type = ""
    THEN WhResponse(500, "Missing required parameter", "query_type", "")
    ELSE IF event.query_type \notin ValidTypes
    THEN WhResponse(500, "Invalid query_type", "query_type", "")
    ELSE IF queryOk THEN WhResponse(200, "", "", event.query_type)
    ELSE WhResponse(500, "query failed", "", "")

\* whether SyncQuery reaches execute_snowflake_query
SyncQueries(event) ==
    event.query # ""
    \/ (event.sys_user_id # "" /\ event.query_type \in ValidTypes)

\* mutant of Finally: a failing close replaces the response
FinallyPropagates(response, closeOk) ==
    IF closeOk THEN response ELSE WhResponse(500, "close failed", "", "")

\* lines 123-129: the finally block swallows what close raises, so the
\* response of the try block is returned
Finally(response, closeOk) == response

\* a handler that leaves the connection it obtained open
ClosedByHandlerNever(conn, closeOk) == FALSE

\* lines 123-127: conn.close() on the connection obtained, which closes it
\* unless close raises
ClosedByHandler(conn, closeOk) == conn # 0 /\ closeOk

NoInvocation ==
    [event |-> WarmupEvent, handled |-> FALSE, response |-> WhResponse(0, "", "", ""),
     tried |-> WhResponse(0, "", "", ""), connects |-> 0, conn |-> 0,
     queries |-> 0, closes |-> 0, closeOk |-> TRUE, cacheBefore |-> <<0, 0>>]

WhInit == whCall = NoInvocation /\ whCount = 0

\* lambda_handler(event, context)
SyncHandler ==
    /\ whTool = "sync"
    /\ whCount < MaxInvocations
    /\ whCount' = whCount + 1
    /\ \E event \in WhEvents, checkRaises, connected, configOk, queryOk,
          closeOk \in BOOLEAN :
        IF IsWarmup(event)
        THEN /\ whCall' = [NoInvocation EXCEPT
                              !.event = event, !.handled = TRUE,
                              !.response = WhResponse(200, "", "", "Lambda warmed up"),
                              !.tried = WhResponse(200, "", "", "Lambda warmed up"),
                              !.cacheBefore = <<sfCached, sfLastTime>>]
             /\ UNCHANGED sfVars
        ELSE LET c == ConnectOutcome(checkRaises, connected)
                 conn == c.call.conn
                 tried == IF conn = 0 THEN WhResponse(500, "connect failed", "", "")
                          ELSE IF ~configOk
                          THEN WhResponse(400, "Configuration error", "", "")
                          ELSE SyncQuery(event, queryOk)
                 closed == ClosedByHandler(conn, closeOk)
             IN  /\ whCall' = [event |-> event, handled |-> TRUE,
                               response |-> Finally(tried, conn = 0 \/ closeOk),
                               tried |-> tried,
                               connects |-> 1, conn |-> conn,
                               queries |-> IF conn # 0 /\ configOk /\ SyncQueries(event)
                                           THEN 1 ELSE 0,
                               closes |-> IF conn # 0 THEN 1 ELSE 0,
                               closeOk |-> conn = 0 \/ closeOk,
                               cacheBefore |-> <<sfCached, sfLastTime>>]
                 /\ sfCall' = c.call
                 /\ sfCached' = c.cached
                 /\ sfLastTime' = c.lastTime
                 /\ sfConns' = IF closed
                               THEN [c.conns EXCEPT ![conn].closed = TRUE]
                               ELSE c.conns
                 /\ UNCHANGED sfNow
    /\ UNCHANGED <<whTool, ahCall>>
    /\ UNCHANGED whOthers

\* warmup_connection() at module load: connect unless a connection is cached
WarmupConnection ==
    /\ whCount = 0
    /\ whTool = "sync"
    /\ sfCall.kind = "none"
    /\ sfCached = 0
    /\ \E connected \in BOOLEAN :
        LET c == ConnectOutcome(FALSE, connected)
        IN  /\ sfCall' = c.call
            /\ sfCached' = c.cached
            /\ sfLastTime' = c.lastTime
            /\ sfConns' = c.conns
    /\ UNCHANGED <<sfNow, whVars>>
    /\ UNCHANGED whOthers

\* a Lambda container is started for one of the two deployables
ContainerStart ==
    /\ whTool = ""
    /\ \E tool \in {"sync", "async"} : whTool' = tool
    /\ UNCHANGED <<whCall, whCount, ahCall, sfVars>>
    /\ UNCHANGED whOthers

(* The asynchronous warehouse tool: lambda_handler, execute_queries_parallel *)
(* and execute_single_query_async of                                         *)
(* Tools/SnowflakeQueryAsyncLambda/src/lambda_function.py.  Its helpers      *)
(* connect_to_snowflake_async, setup_snowflake_session_async and             *)
(* execute_snowflake_query_async are not part of the sources: connecting     *)
(* and each report's setup and execution either return or raise.             *)

\* the query_types arrays: up to MaxReports report names
RECURSIVE TypeLists(_)
TypeLists(n) ==
    IF n = 0 THEN {<<>>}
    ELSE TypeLists(n - 1)
         \cup {Append(l, t) : l \in {m \in TypeLists(n - 1) : Len(m) = n - 1},
                              t \in ValidTypes}

AhEvent(source, detailType, sysUserId, queryTypes, queryType) ==
    [source |-> source, detailType |-> detailType, sys_user_id |-> sysUserId,
     query_types |-> queryTypes, query_type |-> queryType]

AhEvents ==
    {AhEvent("aws.events", "Scheduled Event", "", <<>>, ""),
     AhEvent("", "", "", <<"active_pipeline">>, ""),
     AhEvent("", "", "7", <<"active_pipeline", "other">>, "")}
    \cup {AhEvent("", "", "7", types, "") : types \in TypeLists(MaxReports) \ {<<>>}}
    \cup {AhEvent("", "", "7", <<>>, queryType) :
            queryType \in {"", "funded_loans", "other"}}

AhResponse(statusCode, error, field, results, rows) ==
    [statusCode |-> statusCode, error |-> error, field |-> field,
     results |-> results, rows |-> rows,
     total_queries |-> Len(results),
     successful_queries |->
         Cardinality({i \in 1..Len(results) : results[i].status = "success"}),
     failed_queries |->
         Cardinality({i \in 1..Len(results) : results[i].status = "failed"})]

\* mutant of SingleQuery: a report fails as soon as an earlier one has failed
SingleQueryAborting(queryTypes, returns, i) ==
    IF \A k \in 1..i : queryTypes[k] \in ValidTypes /\ returns[k]
    THEN [query_type |-> queryTypes[i], status |-> "success",
          rows |-> <<queryTypes[i], i>>]
    ELSE [query_type |-> queryTypes[i], status |-> "failed", rows |-> <<>>]

\* execute_single_query_async for the i-th requested report: returns[i] says
\* its setup and execution return
SingleQuery(queryTypes, returns, i) ==
    IF queryTypes[i] \in ValidTypes /\ returns[i]
    THEN [query_type |-> queryTypes[i], status |-> "success",
          rows |-> <<queryTypes[i], i>>]
    ELSE [query_type |-> queryTypes[i], status |-> "failed", rows |-> <<>>]

\* execute_queries_parallel once connected: gather and the result list
QueriesParallel(queryTypes, returns) ==
    [i \in 1..Len(queryTypes) |-> SingleQuery(queryTypes, returns, i)]

NoAsyncInvocation ==
    [event |-> AhEvent("", "", "", <<>>, ""), handled |-> FALSE,
     response |-> AhResponse(0, "", "", <<>>, <<>>),
     tried |-> AhResponse(0, "", "", <<>>, <<>>),
     connects |-> 0, connected |-> FALSE, returns |-> <<>>, ran |-> 0,
     closes |-> 0, closeOk |-> TRUE]

AhInit == ahCall = NoAsyncInvocation /\ whTool = ""

\* lambda_handler(event, context) of the asynchronous tool
AsyncHandler ==
    /\ whTool = "async"
    /\ whCount < MaxInvocations
    /\ whCount' = whCount + 1
    /\ \E event \in AhEvents, connected, configOk, closeOk \in BOOLEAN,
          returns \in [1..MaxReports -> BOOLEAN] :
        LET types == IF event.query_types # <<>> THEN event.query_types
                     ELSE <<event.query_type>>
            invalid == \E i \in 1..Len(event.query_types) :
                           event.query_types[i] \notin ValidTypes
            rejected ==
                IF IsWarmup(event)
                THEN AhResponse(200, "", "", <<>>, <<"Lambda warmed up">>)
                ELSE IF event.sys_user_id = ""
                THEN AhResponse(400, "Missing required parameter", "sys_user_id",
                                <<>>, <<>>)
                ELSE IF event.query_types # <<>> /\ invalid
                THEN AhResponse(400, "Invalid query_types", "query_types", <<>>, <<>>)
                ELSE IF event.query_types = <<>> /\ event.query_type = ""
                THEN AhResponse(400, "Missing required parameter",
                                "query_type or query_types", <<>>, <<>>)
                ELSE AhResponse(0, "", "", <<>>, <<>>)
            results == QueriesParallel(types, returns)
            tried ==
                IF ~connected THEN AhResponse(500, "connect failed", "", <<>>, <<>>)
                ELSE IF ~configOk
                THEN AhResponse(400, "Configuration error", "", <<>>, <<>>)
                ELSE IF event.query_types # <<>>
                THEN AhResponse(200, "", "", results, <<>>)
                ELSE IF results[1].status = "success"
                THEN AhResponse(200, "", "", <<>>, results[1].rows)
                ELSE AhResponse(500, "query failed", "", <<>>, <<>>)
        IN  IF rejected.statusCode # 0
            THEN ahCall' = [NoAsyncInvocation EXCEPT
                               !.event = event, !.handled = TRUE,
                               !.response = rejected, !.tried = rejected]
            ELSE ahCall' = [event |-> event, handled |-> TRUE,
                            response |-> Finally(tried, ~connected \/ closeOk),
                            tried |-> tried,
                            connects |-> 1, connected |-> connected,
                            returns |-> returns,
                            ran |-> IF connected /\ configOk THEN Len(types) ELSE 0,
                            closes |-> IF connected THEN 1 ELSE 0,
                            closeOk |-> ~connected \/ closeOk]
    /\ UNCHANGED <<whCall, whTool, sfVars>>
    /\ UNCHANGED whOthers


-----------------------------------------------------------------------------
\* The loan-detail tool (HydraQueryLambda): lambda_handler logs in to the
\* downstream API and, given a token, runs the named query.

\* Python truthiness of an optional string ("null" stands for None)
Truthy(x) == x \notin {"null", ""}

\* what session.request does for one call: it raises (transport failure) or
\* returns a status and a body; a body is not JSON ("malformed") or a JSON
\* object, of which the fields read by the code are kept
HttpStatuses == {200, 401, 500}

JsonBodies ==
    [json : {TRUE}, token : {"null", "", "t1"}, access_token : {"null", "t2"},
     rows : {"r1"}]

MalformedJson == [json |-> FALSE, token |-> "null", access_token |-> "null",
                  rows |-> ""]

HttpOutcomes ==
    [raised : {FALSE}, status : HttpStatuses, body : JsonBodies \cup {MalformedJson}]
        \cup [raised : {TRUE}, status : {0}, body : {MalformedJson}]

NoOutcome == [raised |-> FALSE, status |-> 0, body |-> MalformedJson]

\* the value of a call: what it returned, or that it raised RuntimeError
Returned(value) == [raised |-> FALSE, value |-> value]

Raised(message) == [raised |-> TRUE, value |-> message]

\* hydra_login without its else branch: a non-200 status yields no token
HydraLoginLenient(o) ==
    IF o.raised THEN Raised("Hydra login failed")
    ELSE IF o.status = 200
    THEN IF ~o.body.json THEN Raised("Hydra login failed")
         ELSE Returned(IF Truthy(o.body.token) THEN o.body.token
                       ELSE o.body.access_token)
    ELSE Returned("null")

\* hydra_login: the token of a 200 response, RuntimeError otherwise
HydraLogin(o) ==
    IF o.raised THEN Raised("Hydra login failed")
    ELSE IF o.status = 200
    THEN IF ~o.body.json THEN Raised("Hydra login failed")
         ELSE Returned(IF Truthy(o.body.token) THEN o.body.token
                       ELSE o.body.access_token)
    ELSE Raised("Hydra login failed")

\* hydra_query_executor: the JSON of a 200 response, RuntimeError otherwise
HydraQueryExecutor(o) ==
    IF o.raised THEN Raised("Hydra query execution failed")
    ELSE IF o.status = 200 /\ o.body.json THEN Returned(o.body.rows)
    ELSE Raised("Hydra query execution failed")

\* hydraResult: None, {"error": ...} or the downstream JSON
HydraResult(kind, value) == [kind |-> kind, value |-> value]

HyEvents == [loanId : {"", "L1", "L2"}, queryName : {"", "q1", "q2"}]

HyResponse(statusCode, error, event, result) ==
    [statusCode |-> statusCode, error |-> error, loanId |-> event.loanId,
     queryName |-> event.queryName, hydraResult |-> result]

NoHydraInvocation ==
    [event |-> [loanId |-> "", queryName |-> ""], handled |-> FALSE,
     response |-> HyResponse(0, "", [loanId |-> "", queryName |-> ""],
                             HydraResult("null", "")),
     loginCalls |-> 0, queryCalls |-> 0,
     login |-> NoOutcome, query |-> NoOutcome, raised |-> FALSE]

HyInit == hyCall = NoHydraInvocation

\* lambda_handler of the loan-detail tool
HydraLambdaHandler ==
    /\ \E event \in HyEvents, login, query \in HttpOutcomes :
        LET none == [loanId |-> "", queryName |-> ""]
            token == HydraLogin(login)
            asked == ~token.raised /\ Truthy(token.value)
            answer == HydraQueryExecutor(query)
            result == IF token.raised THEN HydraResult("error", token.value)
                      ELSE IF ~asked THEN HydraResult("null", "")
                      ELSE IF answer.raised THEN HydraResult("error", answer.value)
                      ELSE HydraResult("json", answer.value)
        IN  IF event.loanId = ""
            THEN hyCall' = [NoHydraInvocation EXCEPT
                               !.event = event, !.handled = TRUE,
                               !.response = HyResponse(400, "Missing required parameter: loanId",
                                                       none, HydraResult("null", ""))]
            ELSE IF event.queryName = ""
            THEN hyCall' = [NoHydraInvocation EXCEPT
                               !.event = event, !.handled = TRUE,
                               !.response = HyResponse(400, "Missing required parameter: queryName",
                                                       none, HydraResult("null", ""))]
            ELSE hyCall' = [event |-> event, handled |-> TRUE,
                            response |-> HyResponse(200, "", event, result),
                            loginCalls |-> 1,
                            queryCalls |-> IF asked THEN 1 ELSE 0,
                            login |-> login,
                            query |-> IF asked THEN query ELSE NoOutcome,
                            raised |-> FALSE]
    /\ UNCHANGED hyOthers


-----------------------------------------------------------------------------
\* The raw-protocol voice bridge (direct-bedrock): handle_websocket runs
\* ws_to_bedrock and bedrock_to_ws as two tasks over one model stream.

\* an event of the protocol, as far as the bridge reads it
RbEvent(type, promptName, contentName, toolUseId, inputOk, tool) ==
    [type |-> type, promptName |-> promptName, contentName |-> contentName,
     toolUseId |-> toolUseId, inputOk |-> inputOk, tool |-> tool]

PromptNames == {"p1", "p2"}

ClientTypes == {"textInput", "audioInput", "sessionEnd"}

RbIsToolUse(e) == e.type = "toolUse"

\* what the model may emit next: a completionStart first, the contentEnd of
\* a tool-use block directly after its toolUse, with toolUseId values that
\* do not repeat; the toolUse content is valid JSON or not
NextModelEvents(received) ==
    IF received = <<>>
    THEN {RbEvent("completionStart", p, "", 0, TRUE, FALSE) : p \in PromptNames}
    ELSE IF RbIsToolUse(received[Len(received)])
    THEN {RbEvent("contentEnd", "", "", received[Len(received)].toolUseId, TRUE, TRUE)}
    ELSE {RbEvent("completionStart", p, "", 0, TRUE, FALSE) : p \in PromptNames}
         \cup {RbEvent("textOutput", "", "", 0, TRUE, FALSE),
               RbEvent("contentEnd", "", "", 0, TRUE, FALSE)}
         \cup {RbEvent("toolUse", "", "",
                       1 + Len(SelectSeq(received, RbIsToolUse)), ok, FALSE) :
                   ok \in BOOLEAN}

\* one send: into the model stream (from the client or from the bridge
\* itself) or to the client
RbSend(to, src, event) == [to |-> to, src |-> src, event |-> event]

\* content_name = f"tool-result-{tool_content_counter}"
ToolResultName(n) == <<"tool-result", n>>

\* the three-part reply to a tool use
ToolReply(promptName, toolUseId, n) ==
    << RbSend("model", "bridge",
              RbEvent("contentStart", promptName, ToolResultName(n), toolUseId,
                      TRUE, TRUE)),
       RbSend("model", "bridge",
              RbEvent("toolResult", promptName, ToolResultName(n), 0, TRUE, TRUE)),
       RbSend("model", "bridge",
              RbEvent("contentEnd", promptName, ToolResultName(n), 0, TRUE, TRUE)) >>

\* asyncio.wait that reports no task as pending
PendingNone(ws, br) == {}

\* the tasks asyncio.wait reports as pending
Pending(ws, br) ==
    (IF ws = "done" THEN {} ELSE {"ws"}) \cup (IF br = "done" THEN {} ELSE {"br"})

\* how a call of execute_tool goes: no tools are loaded, none has the name,
\* the tool raises, or it returns
ToolOutcomes == {"not loaded", "not found", "raised", "returned"}

\* execute_tool: the tool's result as a string, or {"error": ...}
ExecuteTool(outcome) == IF outcome = "returned" THEN "result" ELSE "error"

RbInit ==
    /\ rbPc = "start"
    /\ rbWs = "none"
    /\ rbBr = "none"
    /\ rbActive = FALSE
    /\ rbToolUseId = 0
    /\ rbToolInputOk = TRUE
    /\ rbPromptName = ""
    /\ rbCounter = 0
    /\ rbLog = <<>>
    /\ rbReceived = <<>>
    /\ rbExecs = <<>>
    /\ rbContents = <<>>
    /\ rbClosed = 0
    /\ rbMsgs = 0

\* handle_websocket up to the creation of the two tasks
RbSetup ==
    /\ rbPc = "start"
    /\ \E established \in BOOLEAN :
        IF established
        THEN /\ rbPc' = "waiting"
             /\ rbWs' = "running"
             /\ rbBr' = "running"
             /\ rbActive' = TRUE
        ELSE /\ rbPc' = "returned"
             /\ UNCHANGED <<rbWs, rbBr, rbActive>>
    /\ UNCHANGED <<rbToolUseId, rbToolInputOk, rbPromptName, rbCounter, rbLog,
                   rbReceived, rbExecs, rbContents, rbClosed, rbMsgs>>
    /\ UNCHANGED rbOthers

\* ws_to_bedrock: one message of the client
WsToBedrock ==
    /\ rbWs = "running"
    /\ rbMsgs < MaxClientMessages
    /\ rbMsgs' = rbMsgs + 1
    /\ \E type \in ClientTypes \cup {"invalid"}, sendOk \in BOOLEAN :
        IF ~rbActive
        THEN /\ rbWs' = "done"
             /\ UNCHANGED <<rbActive, rbLog>>
        ELSE IF type = "invalid"
        THEN UNCHANGED <<rbWs, rbActive, rbLog>>
        ELSE IF ~sendOk
        THEN /\ rbWs' = "done"
             /\ rbActive' = FALSE
             /\ UNCHANGED rbLog
        ELSE /\ rbLog' = Append(rbLog,
                                RbSend("model", "client",
                                       RbEvent(type, "", "", 0, TRUE, FALSE)))
             /\ rbWs' = IF type = "sessionEnd" THEN "done" ELSE "running"
             /\ rbActive' = (type # "sessionEnd")
    /\ UNCHANGED <<rbPc, rbBr, rbToolUseId, rbToolInputOk, rbPromptName,
                   rbCounter, rbReceived, rbExecs, rbContents, rbClosed>>
    /\ UNCHANGED rbOthers

\* ws_to_bedrock: the client's connection closes
WsClosed ==
    /\ rbWs = "running"
    /\ rbWs' = "done"
    /\ rbActive' = FALSE
    /\ UNCHANGED <<rbPc, rbBr, rbToolUseId, rbToolInputOk, rbPromptName,
                   rbCounter, rbLog, rbReceived, rbExecs, rbContents, rbClosed, rbMsgs>>
    /\ UNCHANGED rbOthers

\* bedrock_to_ws: one event of the model, up to the call of execute_tool or,
\* without one, through the forward to the client
BedrockToWs ==
    /\ rbBr = "running"
    /\ Len(rbReceived) < MaxModelEvents
    /\ \E e \in NextModelEvents(rbReceived), forwardOk \in BOOLEAN :
        LET triggers == e.type = "contentEnd" /\ rbToolUseId # 0
        IN  /\ rbReceived' = Append(rbReceived, e)
            /\ rbPromptName' = IF e.type = "completionStart" THEN e.promptName
                               ELSE rbPromptName
            /\ IF triggers /\ rbToolInputOk
               THEN /\ rbBr' = "executing"
                    /\ UNCHANGED <<rbToolUseId, rbToolInputOk, rbLog, rbActive>>
               ELSE /\ rbToolUseId' = IF e.type = "toolUse" THEN e.toolUseId
                                      ELSE IF triggers THEN 0
                                      ELSE rbToolUseId
                    /\ rbToolInputOk' = IF e.type = "toolUse" THEN e.inputOk
                                        ELSE IF triggers THEN TRUE
                                        ELSE rbToolInputOk
                    /\ IF forwardOk
                       THEN /\ rbLog' = Append(rbLog, RbSend("client", "model", e))
                            /\ rbBr' = IF rbActive THEN "running" ELSE "done"
                            /\ UNCHANGED rbActive
                       ELSE /\ rbBr' = "done"
                            /\ rbActive' = FALSE
                            /\ UNCHANGED rbLog
    /\ UNCHANGED <<rbPc, rbWs, rbCounter, rbExecs, rbContents, rbClosed, rbMsgs>>
    /\ UNCHANGED rbOthers

\* bedrock_to_ws: execute_tool has returned; the reply is sent into the model
\* stream as far as the sends succeed, then the contentEnd is forwarded
ToolReturns ==
    /\ rbBr = "executing"
    /\ \E outcome \in ToolOutcomes, sent \in 0..3, forwardOk \in BOOLEAN :
        LET reply == ToolReply(rbPromptName, rbToolUseId, rbCounter + 1)
            replied == rbLog \o SubSeq(reply, 1, sent)
        IN  /\ rbExecs' = Append(rbExecs, rbToolUseId)
            /\ rbContents' = Append(rbContents, ExecuteTool(outcome))
            /\ rbCounter' = rbCounter + 1
            /\ rbToolUseId' = 0
            /\ rbToolInputOk' = TRUE
            /\ IF forwardOk
               THEN /\ rbLog' = Append(replied,
                                       RbSend("client", "model",
                                              rbReceived[Len(rbReceived)]))
                    /\ rbBr' = IF rbActive THEN "running" ELSE "done"
                    /\ UNCHANGED rbActive
               ELSE /\ rbLog' = replied
                    /\ rbBr' = "done"
                    /\ rbActive' = FALSE
    /\ UNCHANGED <<rbPc, rbWs, rbPromptName, rbReceived, rbClosed, rbMsgs>>
    /\ UNCHANGED rbOthers

\* bedrock_to_ws: the model stream ends or fails
BedrockEnds ==
    /\ rbBr = "running"
    /\ rbBr' = "done"
    /\ rbActive' = FALSE
    /\ UNCHANGED <<rbPc, rbWs, rbToolUseId, rbToolInputOk, rbPromptName,
                   rbCounter, rbLog, rbReceived, rbExecs, rbContents, rbClosed, rbMsgs>>
    /\ UNCHANGED rbOthers

\* handle_websocket: asyncio.wait returns; the pending tasks are cancelled
RbWake ==
    /\ rbPc = "waiting"
    /\ rbWs = "done" \/ rbBr = "done"
    /\ rbPc' = "awaiting"
    /\ rbWs' = IF "ws" \in Pending(rbWs, rbBr) THEN "cancelling" ELSE rbWs
    /\ rbBr' = IF "br" \in Pending(rbWs, rbBr) THEN "cancelling" ELSE rbBr
    /\ UNCHANGED <<rbActive, rbToolUseId, rbToolInputOk, rbPromptName,
                   rbCounter, rbLog, rbReceived, rbExecs, rbContents, rbClosed, rbMsgs>>
    /\ UNCHANGED rbOthers

\* a cancelled task unwinds through its finally block
TaskCancelled ==
    /\ rbWs = "cancelling" \/ rbBr = "cancelling"
    /\ rbWs' = IF rbWs = "cancelling" THEN "cancelled" ELSE rbWs
    /\ rbBr' = IF rbBr = "cancelling" THEN "cancelled" ELSE rbBr
    /\ rbToolUseId' = IF rbBr = "cancelling" THEN 0 ELSE rbToolUseId
    /\ rbToolInputOk' = IF rbBr = "cancelling" THEN TRUE ELSE rbToolInputOk
    /\ rbActive' = FALSE
    /\ UNCHANGED <<rbPc, rbPromptName, rbCounter, rbLog, rbReceived, rbExecs, rbContents,
                   rbClosed, rbMsgs>>
    /\ UNCHANGED rbOthers

\* handle_websocket: the awaits of the cancelled tasks return, the input
\* side of the model stream is closed and the handler returns
RbClose ==
    /\ rbPc = "awaiting"
    /\ rbWs # "cancelling" /\ rbBr # "cancelling"
    /\ rbClosed' = rbClosed + 1
    /\ rbPc' = "returned"
    /\ UNCHANGED <<rbWs, rbBr, rbActive, rbToolUseId, rbToolInputOk,
                   rbPromptName, rbCounter, rbLog, rbReceived, rbExecs, rbContents, rbMsgs>>
    /\ UNCHANGED rbOthers


-----------------------------------------------------------------------------
\* The production voice server's credential refresh (strands-bidi/server.py):
\* refresh_credentials_from_imds fetches, sets the environment and sleeps.

\* time_until_expiration, in whole minutes for the inputs that are tried
ExpirySeconds == {60 * k : k \in -1..MaxExpiryMinutes}

\* min(max(t - 300, 60), 3600) without the upper clamp
RefreshIntervalUnclamped(t) == IF t - 300 > 60 THEN t - 300 ELSE 60

\* refresh_interval = min(max(time_until_expiration - 300, 60), 3600)
RefreshInterval(t) ==
    LET lower == IF t - 300 > 60 THEN t - 300 ELSE 60
    IN  IF lower < 3600 THEN lower ELSE 3600

\* one round: the fetch fails; or succeeds and setting the environment
\* raises (a credential field is None); or succeeds with an Expiration that
\* does not parse; or succeeds with time_until_expiration = seconds
FetchOutcome(kind, seconds) == [kind |-> kind, seconds |-> seconds]

FetchOutcomes ==
    {FetchOutcome(k, 0) : k \in {"failed", "raised", "unparsable"}}
        \cup {FetchOutcome("success", t) : t \in ExpirySeconds}

\* the delay the round sleeps for
SleepAfter(o) ==
    IF o.kind = "failed" THEN 300
    ELSE IF o.kind = "raised" THEN 300
    ELSE IF o.kind = "unparsable" THEN 3600
    ELSE RefreshInterval(o.seconds)

CrInit ==
    /\ crPc = "fetching"
    /\ crDelay = 0
    /\ crFetch = FetchOutcome("none", 0)
    /\ crRounds = 0

\* one pass of the while loop up to its asyncio.sleep
CrRound ==
    /\ crPc = "fetching"
    /\ crRounds < MaxRounds
    /\ \E o \in FetchOutcomes :
        /\ crFetch' = o
        /\ crDelay' = SleepAfter(o)
    /\ crPc' = "sleeping"
    /\ crRounds' = crRounds + 1
    /\ UNCHANGED crOthers

\* the sleep elapses
CrWake ==
    /\ crPc = "sleeping"
    /\ crPc' = "fetching"
    /\ UNCHANGED <<crDelay, crFetch, crRounds>>
    /\ UNCHANGED crOthers

\* the task is cancelled while it sleeps (lifespan shutdown)
CrCancel ==
    /\ crPc = "sleeping"
    /\ crPc' = "ended"
    /\ UNCHANGED <<crDelay, crFetch, crRounds>>
    /\ UNCHANGED crOthers


-----------------------------------------------------------------------------
\* Two callers of get_or_create_session (session_manager.py) whose storage
\* calls interleave: the query and the write are separate requests to the
\* table, with nothing conditional on the write.

Callers == {1, 2}

NoReturn == [returned |-> FALSE, new_session |-> FALSE, sessionId |-> NoSid]

GcInit ==
    /\ gcPc = [c \in Callers |-> "idle"]
    /\ gcLoan = [c \in Callers |-> NoLoan]
    /\ gcSeen = [c \in Callers |-> {}]
    /\ gcRet = [c \in Callers |-> NoReturn]
    /\ gcNow = [c \in Callers |-> 0]

\* get_or_create_session up to the response of table.query
GcQuery(c) ==
    /\ gcPc[c] = "idle"
    /\ \E loan \in LoanIds \cup {NoLoan} :
        LET found == QueryActiveByPrefix(<<"b1", "u1">>, SessionIdPrefix(loan))
        IN  /\ gcLoan' = [gcLoan EXCEPT ![c] = loan]
            /\ gcSeen' = [gcSeen EXCEPT ![c] =
                              {it \in found : WithinActivityWindow(it, now)}]
    /\ gcPc' = [gcPc EXCEPT ![c] = "queried"]
    /\ gcNow' = [gcNow EXCEPT ![c] = now]
    /\ storeTouched' = TRUE
    /\ UNCHANGED <<gcRet, table, now, ticks, usedUuids, last, tableConfigured,
                   keyConfigured, issued>>
    /\ UNCHANGED gcOthers

\* the rest of the call: update_item on the item found, or put_item of a
\* new one
GcWrite(c) ==
    /\ gcPc[c] = "queried"
    /\ gcPc' = [gcPc EXCEPT ![c] = "returned"]
    /\ IF gcSeen[c] # {}
       THEN \E seen \in gcSeen[c] :
            LET item == CHOOSE it \in table : it.PK = seen.PK /\ it.SK = seen.SK
                upd == UpdateExistingSession(item, "", TRUE, 1, gcNow[c])
            IN  /\ table' = (table \ {item}) \cup {upd}
                /\ gcRet' = [gcRet EXCEPT ![c] =
                                 [returned |-> TRUE, new_session |-> FALSE,
                                  sessionId |-> upd.sessionId]]
                /\ issued' = issued \cup {upd.sessionId}
                /\ UNCHANGED usedUuids
       ELSE \E u \in UUIDs :
            LET item == CreateNewSession("b1", "u1", gcLoan[c], "", TRUE, 1, u, gcNow[c])
            IN  /\ u \notin usedUuids
                /\ usedUuids' = usedUuids \cup {u}
                /\ table' = PutItem(item)
                /\ gcRet' = [gcRet EXCEPT ![c] =
                                 [returned |-> TRUE, new_session |-> TRUE,
                                  sessionId |-> item.sessionId]]
                /\ issued' = issued \cup {item.sessionId}
    /\ UNCHANGED <<gcLoan, gcSeen, gcNow, now, ticks, last, tableConfigured,
                   keyConfigured, storeTouched>>
    /\ UNCHANGED gcOthers

\* the caller makes its next call
GcAgain(c) ==
    /\ gcPc[c] = "returned"
    /\ Cardinality(usedUuids) < MaxUuid
    /\ gcPc' = [gcPc EXCEPT ![c] = "idle"]
    /\ gcSeen' = [gcSeen EXCEPT ![c] = {}]
    /\ gcRet' = [gcRet EXCEPT ![c] = NoReturn]
    /\ UNCHANGED <<gcLoan, gcNow, sessVars>>
    /\ UNCHANGED gcOthers


-----------------------------------------------------------------------------
\* connect_to_snowflake under two callers in one container: the busy flag
\* CONNECTION_LOCK is an ordinary boolean, tested on entry and reset in the
\* finally block of whichever attempt ends.

Threads == {1, 2}

NoConnect == [how |-> "none", conn |-> 0]

\* after time.sleep(0.1) that gives up when nothing is cached
AfterSleepGivesUp(cached) == IF cached # 0 THEN "return" ELSE "raise"

\* after time.sleep(0.1): return what is cached, else go on to connect
AfterSleep(cached) == IF cached # 0 THEN "return" ELSE "proceed"

BcInit ==
    /\ bcPc = [t \in Threads |-> "idle"]
    /\ bcLock = FALSE
    /\ bcSawBusy = [t \in Threads |-> FALSE]
    /\ bcRet = [t \in Threads |-> NoConnect]

\* the cache test and what follows it up to the connection attempt
BcProceed(t) ==
    IF /\ Reusable(sfCached, sfLastTime, sfNow)
       /\ ~sfConns[sfCached].closed
    THEN /\ bcPc' = [bcPc EXCEPT ![t] = "returned"]
         /\ bcRet' = [bcRet EXCEPT ![t] = [how |-> "reused", conn |-> sfCached]]
         /\ sfLastTime' = sfNow
         /\ UNCHANGED bcLock
    ELSE /\ bcPc' = [bcPc EXCEPT ![t] = "connecting"]
         /\ bcLock' = TRUE
         /\ UNCHANGED <<bcRet, sfLastTime>>

\* entry: with the flag set the caller sleeps, else it goes on
BcEnter(t) ==
    /\ bcPc[t] = "idle"
    /\ Len(sfConns) < MaxConns
    /\ bcSawBusy' = [bcSawBusy EXCEPT ![t] = bcLock]
    /\ IF bcLock
       THEN /\ bcPc' = [bcPc EXCEPT ![t] = "sleeping"]
            /\ UNCHANGED <<bcLock, bcRet, sfLastTime>>
       ELSE BcProceed(t)
    /\ UNCHANGED <<sfCached, sfNow, sfConns, sfCall>>
    /\ UNCHANGED bcOthers

\* the sleep is over
BcSleepEnds(t) ==
    /\ bcPc[t] = "sleeping"
    /\ IF AfterSleep(sfCached) = "return"
       THEN /\ bcPc' = [bcPc EXCEPT ![t] = "returned"]
            /\ bcRet' = [bcRet EXCEPT ![t] = [how |-> "cached", conn |-> sfCached]]
            /\ UNCHANGED <<bcLock, sfLastTime>>
       ELSE IF AfterSleep(sfCached) = "proceed"
       THEN BcProceed(t)
       ELSE /\ bcPc' = [bcPc EXCEPT ![t] = "returned"]
            /\ bcRet' = [bcRet EXCEPT ![t] = [how |-> "raised", conn |-> 0]]
            /\ UNCHANGED <<bcLock, sfLastTime>>
    /\ UNCHANGED <<bcSawBusy, sfCached, sfNow, sfConns, sfCall>>
    /\ UNCHANGED bcOthers

\* the connection attempt ends: a connection is cached and returned, or both
\* attempts raised; the finally block resets the flag
BcAttemptEnds(t) ==
    /\ bcPc[t] = "connecting"
    /\ bcPc' = [bcPc EXCEPT ![t] = "returned"]
    /\ bcLock' = FALSE
    /\ \E connected \in BOOLEAN :
        IF connected
        THEN /\ sfConns' = Append(sfConns, [created |-> sfNow, closed |-> FALSE])
             /\ sfCached' = Len(sfConns) + 1
             /\ sfLastTime' = sfNow
             /\ bcRet' = [bcRet EXCEPT ![t] =
                              [how |-> "fresh", conn |-> Len(sfConns) + 1]]
        ELSE /\ bcRet' = [bcRet EXCEPT ![t] = [how |-> "raised", conn |-> 0]]
             /\ UNCHANGED <<sfConns, sfCached, sfLastTime>>
    /\ UNCHANGED <<bcSawBusy, sfNow, sfCall>>
    /\ UNCHANGED bcOthers

\* the caller calls again
BcAgain(t) ==
    /\ bcPc[t] = "returned"
    /\ bcPc' = [bcPc EXCEPT ![t] = "idle"]
    /\ bcRet' = [bcRet EXCEPT ![t] = NoConnect]
    /\ bcSawBusy' = [bcSawBusy EXCEPT ![t] = FALSE]
    /\ UNCHANGED <<bcLock, sfVars>>
    /\ UNCHANGED bcOthers

\* time.time() moves on while callers are under way
BcTick ==
    /\ sfNow < MaxSfTicks * TickSeconds
    /\ sfNow' = sfNow + TickSeconds
    /\ UNCHANGED <<sfCached, sfLastTime, sfConns, sfCall, bcVars>>
    /\ UNCHANGED bcOthers


-----------------------------------------------------------------------------
\* The briefing agent (ScoutAgent/kwikie_agent.py): invoke validates the
\* payload and streams from the agent that get_agent builds once per
\* process under _agent_init_lock.

Briefings == 1..MaxBriefings

\* a lock that anyone may enter at any time
LockFreeAlways(lock) == TRUE

\* async with _agent_init_lock: entered when no invocation holds the lock
LockFree(lock) == lock = 0

KaInit ==
    /\ kaAgent = 0
    /\ kaBuilt = 0
    /\ kaTries = 0
    /\ kaLock = 0
    /\ kaPc = [i \in Briefings |-> "idle"]
    /\ kaUsed = [i \in Briefings |-> 0]
    /\ kaErrors = [i \in Briefings |-> 0]

\* invoke up to the first await of get_agent
KaInvoke(i) ==
    /\ kaPc[i] = "idle"
    /\ \E hasUser \in BOOLEAN :
        IF ~hasUser
        THEN /\ kaPc' = [kaPc EXCEPT ![i] = "rejected"]
             /\ kaErrors' = [kaErrors EXCEPT ![i] = @ + 1]
             /\ UNCHANGED kaUsed
        ELSE IF kaAgent # 0
        THEN /\ kaPc' = [kaPc EXCEPT ![i] = "streaming"]
             /\ kaUsed' = [kaUsed EXCEPT ![i] = kaAgent]
             /\ UNCHANGED kaErrors
        ELSE /\ kaPc' = [kaPc EXCEPT ![i] = "waiting"]
             /\ UNCHANGED <<kaUsed, kaErrors>>
    /\ UNCHANGED <<kaAgent, kaBuilt, kaTries, kaLock>>
    /\ UNCHANGED kaOthers

\* get_agent enters the lock: the agent is there by now, or the
\* construction starts and awaits load_tools
KaEnterLock(i) ==
    /\ kaPc[i] = "waiting"
    /\ LockFree(kaLock)
    /\ IF kaAgent # 0
       THEN /\ kaPc' = [kaPc EXCEPT ![i] = "streaming"]
            /\ kaUsed' = [kaUsed EXCEPT ![i] = kaAgent]
            /\ UNCHANGED <<kaLock, kaTries>>
       ELSE /\ kaPc' = [kaPc EXCEPT ![i] = "loading"]
            /\ kaLock' = i
            /\ kaTries' = kaTries + 1
            /\ UNCHANGED kaUsed
    /\ UNCHANGED <<kaAgent, kaBuilt, kaErrors>>
    /\ UNCHANGED kaOthers

\* load_tools returns and the Agent is built, or the construction raises;
\* the lock is released either way
KaLoaded(i) ==
    /\ kaPc[i] = "loading"
    /\ kaLock' = IF kaLock = i THEN 0 ELSE kaLock
    /\ \E ok \in BOOLEAN :
        IF ok
        THEN /\ kaBuilt' = kaBuilt + 1
             /\ kaAgent' = kaBuilt + 1
             /\ kaUsed' = [kaUsed EXCEPT ![i] = kaBuilt + 1]
             /\ kaPc' = [kaPc EXCEPT ![i] = "streaming"]
        ELSE /\ kaPc' = [kaPc EXCEPT ![i] = "failed"]
             /\ UNCHANGED <<kaBuilt, kaAgent, kaUsed>>
    /\ UNCHANGED <<kaTries, kaErrors>>
    /\ UNCHANGED kaOthers

\* agent.stream_async is exhausted
KaStreamEnds(i) ==
    /\ kaPc[i] = "streaming"
    /\ kaPc' = [kaPc EXCEPT ![i] = "done"]
    /\ UNCHANGED <<kaAgent, kaBuilt, kaTries, kaLock, kaUsed, kaErrors>>
    /\ UNCHANGED kaOthers

-----------------------------------------------------------------------------
\* The voice input adapter (strands-bidi/scout_nova_agent.py): the receiver
\* puts audio on input_queue, WebSocketInput.__call__ hands it to the agent.
\* Audio items are numbered in the order the client sent them.

\* the None put on input_queue to say there is no more audio
Sentinel == 0

\* BidiAudioInputEvent(audio=""), as it stands in wiReturned
EmptyAudio == 0

WiMessages == {"audioInput", "emptyAudio", "invalidJson", "other", "sessionEnd"}

WiExits == {"closed", "error", "cancelled"}

\* an adapter that goes on after the sentinel
StaysActiveAlways(item) == TRUE

\* __call__: a dequeued None clears is_active
StaysActive(item) == item # Sentinel

AudioPut == Len(SelectSeq(wiPut, LAMBDA x : x # Sentinel))

WiInit ==
    /\ wiQueue = <<>>
    /\ wiPut = <<>>
    /\ wiActive = TRUE
    /\ wiReturned = <<>>
    /\ wiReceiver = "receiving"
    /\ wiEvent = TRUE
    /\ wiIdle = 0

\* put on the unbounded input_queue
WiPutItems(items) ==
    /\ wiQueue' = wiQueue \o items
    /\ wiPut' = wiPut \o items

\* websocket_receiver takes one message of the client
WiReceive(msg) ==
    /\ wiReceiver = "receiving"
    /\ IF ~wiEvent
       THEN /\ WiPutItems(<<Sentinel>>)
            /\ wiReceiver' = "done"
            /\ UNCHANGED wiEvent
       ELSE IF msg = "audioInput"
       THEN /\ AudioPut < MaxAudio
            /\ WiPutItems(<<AudioPut + 1>>)
            /\ UNCHANGED <<wiReceiver, wiEvent>>
       ELSE IF msg = "sessionEnd"
       THEN /\ WiPutItems(<<Sentinel, Sentinel>>)
            /\ wiEvent' = FALSE
            /\ wiReceiver' = "done"
       ELSE UNCHANGED <<wiQueue, wiPut, wiReceiver, wiEvent>>
    /\ UNCHANGED <<wiActive, wiReturned, wiIdle>>
    /\ UNCHANGED wiOthers

\* websocket_receiver leaves the loop by an exception or a cancellation
WiReceiverEnds(exit) ==
    /\ wiReceiver = "receiving"
    /\ WiPutItems(<<Sentinel>>)
    /\ wiEvent' = FALSE
    /\ wiReceiver' = "done"
    /\ UNCHANGED <<wiActive, wiReturned, wiIdle>>
    /\ UNCHANGED wiOthers

\* the sender or the handler clears the is_active event
WiShutdown ==
    /\ wiEvent
    /\ wiEvent' = FALSE
    /\ UNCHANGED <<wiQueue, wiPut, wiActive, wiReturned, wiReceiver, wiIdle>>
    /\ UNCHANGED wiOthers

\* WebSocketInput.__call__ returns; with nothing queued an active adapter
\* stays in its loop of half-second timeouts
WiCall ==
    /\ IF ~wiActive
       THEN /\ wiIdle < MaxIdleCalls
            /\ wiIdle' = wiIdle + 1
            /\ wiReturned' = Append(wiReturned, EmptyAudio)
            /\ UNCHANGED <<wiQueue, wiActive>>
       ELSE /\ wiQueue # <<>>
            /\ wiQueue' = Tail(wiQueue)
            /\ wiActive' = StaysActive(Head(wiQueue))
            /\ wiReturned' = Append(wiReturned,
                   IF Head(wiQueue) = Sentinel THEN EmptyAudio ELSE Head(wiQueue))
            /\ UNCHANGED wiIdle
    /\ UNCHANGED <<wiPut, wiReceiver, wiEvent>>
    /\ UNCHANGED wiOthers

\* the call is cancelled while it waits for the queue
WiCancel ==
    /\ wiActive
    /\ wiActive' = FALSE
    /\ wiReturned' = Append(wiReturned, EmptyAudio)
    /\ UNCHANGED <<wiQueue, wiPut, wiReceiver, wiEvent, wiIdle>>
    /\ UNCHANGED wiOthers

\* WebSocketInput.stop
WiStop ==
    /\ wiActive
    /\ wiActive' = FALSE
    /\ UNCHANGED <<wiQueue, wiPut, wiReturned, wiReceiver, wiEvent, wiIdle>>
    /\ UNCHANGED wiOthers

-----------------------------------------------------------------------------
RestInit == CwInit /\ GtInit /\ SfInit /\ WhInit /\ AhInit /\ HyInit /\ RbInit /\ CrInit /\ GcInit /\ BcInit /\ KaInit /\ WiInit

Init == SessionInit /\ WsInit /\ HmInit /\ VoInit /\ RestInit

Next ==
    \/ Tick
    \/ LambdaGetOrCreate
    \/ LambdaValidate
    \/ LambdaUpdateActivity
    \/ LambdaInvalidAction

\* the Session Lifecycle Service
Spec == Init /\ [][Next]_vars

WsNext ==
    \/ Connect
    \/ Disconnect
    \/ SendMessage
    \/ OtherRoute

\* the streaming chat bridge's entrypoint (it reads none of the session
\* service's configuration, which is held fixed)
WsInit0 == Init /\ tableConfigured /\ keyConfigured

WsSpec == WsInit0 /\ [][WsNext]_vars

MsgNext ==
    \/ HmMalformed
    \/ HmReject
    \/ HmStart
    \/ HmStreamLine
    \/ HmFallbackWord
    \/ HmEnd

\* one run of the streaming message handler
MsgSpec == WsInit0 /\ [][MsgNext]_vars

VoiceNext ==
    \/ Transcript
    \/ Interruption
    \/ Audio

\* the transcript side of the voice output adapter
VoiceSpec == WsInit0 /\ [][VoiceNext]_vars

ToolNext ==
    \/ ToolUse
    \/ ToolResult

\* the tool-failure counter of the voice output adapter
ToolSpec == WsInit0 /\ [][ToolNext]_vars

BridgeNext ==
    \/ HwSetup
    \/ ReceiverMessage
    \/ ReceiverClosed
    \/ SenderStep
    \/ AgentOutput
    \/ AgentInput
    \/ AgentFinish
    \/ HwWake
    \/ HwAwaitAgent
    \/ HwCleanup
    \/ HwGather

\* one connection of the voice bridge with custom adapters
BridgeSpec == WsInit0 /\ [][BridgeNext]_vars

GatewayNext ==
    \/ ProcessStart
    \/ \E c \in Connections :
        \/ GetToolsEnter(c)
        \/ GetToolsLoaded(c)
        \/ GetToolsFailed(c)
        \/ ConnectionEnds(c)

\* the connections of one voice server process and its tool set
GatewaySpec == WsInit0 /\ [][GatewayNext]_vars

CacheNext ==
    \/ SfTick
    \/ SfClosed
    \/ ConnectToSnowflake

\* the warehouse connection cache of one Lambda container
CacheSpec == WsInit0 /\ [][CacheNext]_vars

WarehouseNext ==
    \/ ContainerStart
    \/ WarmupConnection
    \/ SyncHandler
    \/ AsyncHandler

\* a Lambda container of one of the two warehouse tools
WarehouseSpec == WsInit0 /\ [][WarehouseNext]_vars

HydraNext == HydraLambdaHandler

\* the loan-detail tool
HydraSpec == WsInit0 /\ [][HydraNext]_vars

RawBridgeNext ==
    \/ RbSetup
    \/ WsToBedrock
    \/ WsClosed
    \/ BedrockToWs
    \/ ToolReturns
    \/ BedrockEnds
    \/ RbWake
    \/ TaskCancelled
    \/ RbClose

\* the raw-protocol voice bridge
RawBridgeSpec == WsInit0 /\ [][RawBridgeNext]_vars

RefreshNext == CrRound \/ CrWake \/ CrCancel

\* the credential-refresh loop
RefreshSpec == WsInit0 /\ [][RefreshNext]_vars

ConcurrentNext ==
    \/ Tick
    \/ \E c \in Callers : GcQuery(c)
    \/ \E c \in Callers : GcWrite(c)
    \/ \E c \in Callers : GcAgain(c)

\* the session service under two concurrent callers
ConcurrentSpec == WsInit0 /\ [][ConcurrentNext]_vars

IsolationNext ==
    \/ Tick
    \/ LambdaGetOrCreateLoan

\* the session service asked for contexts whose ids share a beginning
IsolationSpec == WsInit0 /\ [][IsolationNext]_vars

BusyNext ==
    \/ BcTick
    \/ \E t \in Threads : BcEnter(t)
    \/ \E t \in Threads : BcSleepEnds(t)
    \/ \E t \in Threads : BcAttemptEnds(t)
    \/ \E t \in Threads : BcAgain(t)

\* the connection cache under two concurrent callers
BusySpec == WsInit0 /\ [][BusyNext]_vars

BriefingNext ==
    \/ \E i \in Briefings : KaInvoke(i)
    \/ \E i \in Briefings : KaEnterLock(i)
    \/ \E i \in Briefings : KaLoaded(i)
    \/ \E i \in Briefings : KaStreamEnds(i)

\* the briefing agent under concurrent invocations
BriefingSpec == WsInit0 /\ [][BriefingNext]_vars

InputNext ==
    \/ \E msg \in WiMessages : WiReceive(msg)
    \/ \E exit \in WiExits : WiReceiverEnds(exit)
    \/ WiShutdown
    \/ WiCall
    \/ WiCancel
    \/ WiStop

\* the voice input adapter; the agent goes on calling it
InputSpec == WsInit0 /\ [][InputNext]_vars /\ WF_vars(WiCall)

-----------------------------------------------------------------------------
(* Properties of the Session Lifecycle Service.                            *)
(* A step with now' = now that changes some variable is one invocation of  *)
(* lambda_handler; last' is its response and last the response before it.  *)

\* the context string a request for loan is promised
PromisedContext(loan) ==
    IF loan = NoLoan THEN <<ChPortal>> ELSE <<ChLoan, Dash>> \o loan

\* the stored items of one (brokerId, sysUserId, context)
ItemsOfContext(broker, user, loan) ==
    {it \in table : it.brokerId = broker /\ it.loanOfficerId = user /\ it.loanId = loan}

\* the item is active and inside the 1800 s activity window at time t
ActiveAt(it, t) == it.status = "active" /\ t - it.lastActivityAt < 1800

\* C1: with the table configured and no storage error, a get_or_create_session
\* call that directly follows a successful one for the same brokerId, sysUserId
\* and loanId, less than 1800 s later, returns new_session = false and the
\* sessionId the first call returned.
C1_SecondCallReuses ==
    [][(/\ tableConfigured
        /\ now' = now
        /\ last.op = "get_or_create_session" /\ last.statusCode = 200
        /\ last'.op = "get_or_create_session" /\ last'.statusCode = 200
        /\ last'.loan = last.loan
        /\ last'.sessionId.broker = last.sessionId.broker
        /\ last'.sessionId.user = last.sessionId.user
        /\ now - last.lastActivityAt < 1800)
       => (/\ last'.new_session = FALSE
           /\ last'.sessionId = last.sessionId)]_vars

\* C2: for every (brokerId, sysUserId, context) at most one stored record is
\* active with now - lastActivityAt < 1800.
C2_OneActivePerContext ==
    \A a \in table : \A b \in ItemsOfContext(a.brokerId, a.loanOfficerId, a.loanId) :
        (ActiveAt(a, now) /\ ActiveAt(b, now)) => a = b

\* C3 as stated: for every sessionId validate_session returns valid = true
\* iff an active record with that sessionId exists and now - lastActivityAt <
\* 1800 (exactly 1800 is invalid, 1799 valid), and without an active record it
\* returns valid = false with a reason.  Calls a storage fault aborts return
\* nothing and are left aside.
C3_ValidIffActiveInWindow ==
    [][(/\ now' = now
        /\ last'.op = "validate_session"
        /\ last'.sid # NoSid
        /\ ~last'.fault)
       => LET rec == {it \in table : it.sessionId = last'.sid /\ it.status = "active"}
          IN  /\ last'.statusCode = 200
              /\ last'.valid <=> (\E it \in rec : now - it.lastActivityAt < 1800)
              /\ rec = {} => (~last'.valid /\ last'.reason # "")]_vars

\* C3 amended: the same, when the session table is configured.
C3_ValidIffActiveInWindowConfigured ==
    [][(/\ tableConfigured
        /\ now' = now
        /\ last'.op = "validate_session"
        /\ last'.sid # NoSid
        /\ ~last'.fault)
       => LET rec == {it \in table : it.sessionId = last'.sid /\ it.status = "active"}
          IN  /\ last'.statusCode = 200
              /\ last'.valid <=> (\E it \in rec : now - it.lastActivityAt < 1800)
              /\ \A it \in rec : now - it.lastActivityAt = 1800 => ~last'.valid
              /\ \A it \in rec : now - it.lastActivityAt = 1799 => last'.valid
              /\ rec = {} => (~last'.valid /\ last'.reason # "")]_vars

\* C3 witness: a record exactly 1800 s past its last activity was reported invalid
C3_Witness ==
    /\ last.op = "validate_session"
    /\ last.statusCode = 200
    /\ ~last.valid
    /\ \E it \in table : /\ it.sessionId = last.sid
                         /\ it.status = "active"
                         /\ now - it.lastActivityAt = 1800

\* what update_session_activity must leave in the table for sessionId sid
TableAfterActivity(sid) ==
    {IF it.sessionId = sid
     THEN [it EXCEPT !.lastActivityAt = now, !.ttl = now + 7776000]
     ELSE it : it \in table}

\* the post-condition C4 states, for the step's sessionId
C4_Post ==
    IF \A it \in table : it.sessionId # last'.sid
    THEN /\ last'.statusCode >= 400
         /\ table' = table
    ELSE ~last'.fault =>
           /\ table' = TableAfterActivity(last'.sid)
           /\ last'.statusCode = 200
           /\ last'.updated
           /\ last'.lastActivityAt = now

\* C4 as stated (storage faults aside): update_session_activity fails with an
\* error and changes nothing when no record has the sessionId; otherwise it sets
\* that record's lastActivityAt to now and its ttl to now + 7,776,000, changes no
\* other record and returns updated = true with the new lastActivityAt.
C4_UpdateActivity ==
    [][(now' = now /\ last'.op = "update_activity" /\ last'.sid # NoSid)
       => C4_Post]_vars

\* C4 amended: the same, when the session table is configured.
C4_UpdateActivityConfigured ==
    [][(/\ tableConfigured
        /\ now' = now /\ last'.op = "update_activity" /\ last'.sid # NoSid)
       => C4_Post]_vars

\* C4 witness: an update advanced one record's activity time beside another record
C4_Witness ==
    /\ last.op = "update_activity"
    /\ last.updated
    /\ Cardinality(table) >= 2
    /\ \E it \in table : /\ it.sessionId = last.sid
                         /\ it.lastActivityAt = last.lastActivityAt
                         /\ it.lastActivityAt > it.createdAt
                         /\ it.ttl = it.lastActivityAt + 7776000

\* C5: once a stored session has now - lastActivityAt >= 1800, no later call
\* brings it back into the activity window (validate_session reports a session
\* valid exactly when it is active and inside the window).
C5_StaleStaysStale ==
    [][\A it \in table :
         now - it.lastActivityAt >= 1800
         => \A jt \in table' : jt.sessionId = it.sessionId => ~ActiveAt(jt, now')]_vars

\* C6: a successful get_or_create_session returns new_session = true when no
\* session is stored for the context, and every successful result (created,
\* reused or fallback) carries context = 'Loan-<loanId>' or 'Portal'.
C6_ContextInEveryResult ==
    [][(now' = now /\ last'.op = "get_or_create_session" /\ last'.statusCode = 200)
       => /\ "context" \in last'.keys
          /\ last'.context = PromisedContext(last'.loan)
          /\ ItemsOfContext(last'.sessionId.broker, last'.sessionId.user,
                            last'.loan) = {}
             => last'.new_session]_vars

\* C7: with the session table not configured, every get_or_create_session call
\* with brokerId and sysUserId returns fallback = true, new_session = true and a
\* sessionId no earlier call returned; the store is never read or written;
\* validate_session returns valid = true with the 'not configured' reason and
\* update_session_activity returns updated = false.
C7_UnconfiguredFallback ==
    [][(~tableConfigured /\ now' = now)
       => /\ table' = {}
          /\ ~storeTouched'
          /\ \A b \in Brokers \ {""}, us \in Users \ {""},
                l \in LoanIds \cup {NoLoan}, u \in UUIDs :
                GetOrCreateSession(b, us, l, "", "none", TRUE, 1, u)
                => /\ last'.statusCode = 200
                   /\ last'.fallback
                   /\ last'.new_session
                   /\ last'.sessionId \notin issued
          /\ (last'.op = "validate_session" /\ last'.sid # NoSid)
             => /\ last'.statusCode = 200
                /\ last'.valid
                /\ last'.reason = "Table not configured"
          /\ (last'.op = "update_activity" /\ last'.sid # NoSid)
             => /\ last'.statusCode = 200
                /\ ~last'.updated]_vars

\* C7 witness: a second fallback session was returned
C7_Witness ==
    /\ ~tableConfigured
    /\ last.op = "get_or_create_session"
    /\ last.fallback
    /\ Cardinality(issued) >= 2

\* the oauthToken attribute is absent or a base64 ciphertext
CipherOrAbsent(it) ==
    /\ \A t \in Tokens \ {""} : it.oauthToken # Plain(t)
    /\ it.oauthToken = NoAttr \/ it.oauthToken.enc

\* C8: no stored oauthToken is a caller's clear text; the attribute holds only
\* the base64 ciphertext of a successful encryption; when the encryption fails
\* or no key id is configured, the attribute is not written on create and not
\* changed on refresh, and get_or_create_session still succeeds.
C8_NoClearTextToken ==
    [][/\ \A it \in table' : CipherOrAbsent(it)
       /\ (tableConfigured /\ now' = now /\ last'.op = "get_or_create_session")
          \* a call with a token for which _encrypt_oauth_token returns None:
          \* kms_client.encrypt raises (kmsOk = FALSE), or no key id is configured
          => \A b \in Brokers \ {""}, us \in Users \ {""}, u \in UUIDs :
                GetOrCreateSession(b, us, last'.loan, "tok", "none", FALSE, 1, u)
                => /\ last'.statusCode = 200
                   /\ \A jt \in table' :
                        jt.sessionId = last'.sessionId
                        => IF last'.new_session
                           THEN jt.oauthToken = NoAttr
                           ELSE \E it \in table : /\ it.sessionId = jt.sessionId
                                                  /\ it.oauthToken = jt.oauthToken]_vars

\* C8 witness: with a key configured, the table holds a ciphertext and the latest
\* call created a session that has no oauthToken
C8_Witness ==
    /\ keyConfigured
    /\ \E it \in table : it.oauthToken.enc
    /\ last.op = "get_or_create_session"
    /\ last.new_session
    /\ \E jt \in table : jt.sessionId = last.sessionId /\ jt.oauthToken = NoAttr

\* the call last answers was for a sessionId no record has
NoRecordForLast == \A it \in table : it.sessionId # last.sid

\* C9 as stated: lambda_handler always returns a status; an unknown action or a
\* missing required field gives 400; a storage error during get-or-create or
\* validate gives 500; update_activity for a session that does not exist gives
\* an error status; all else gives 200.
C9_StatusCodes ==
    last.op # "none" =>
        IF last.op \notin {"get_or_create_session", "validate_session",
                           "update_activity"} \/ last.missing
        THEN last.statusCode = 400
        ELSE IF last.op \in {"get_or_create_session", "validate_session"} /\ last.fault
        THEN last.statusCode = 500
        ELSE IF last.op = "update_activity" /\ NoRecordForLast
        THEN last.statusCode >= 400
        ELSE last.statusCode = 200

\* C9 amended: a storage error during update_activity gives 500 as well, and
\* update_activity for a session that does not exist gives 500 when the session
\* table is configured (200 with updated = false when it is not).
C9_StatusCodesAmended ==
    last.op # "none" =>
        IF last.op \notin {"get_or_create_session", "validate_session",
                           "update_activity"} \/ last.missing
        THEN last.statusCode = 400
        ELSE IF last.fault
        THEN last.statusCode = 500
        ELSE IF last.op = "update_activity" /\ NoRecordForLast /\ tableConfigured
        THEN last.statusCode = 500
        ELSE last.statusCode = 200

\* C9 witness: update_activity on a stored session ended 500 on a storage error
C9_Witness ==
    /\ last.op = "update_activity"
    /\ last.statusCode = 500
    /\ last.fault
    /\ \E it \in table : it.sessionId = last.sid

-----------------------------------------------------------------------------
(* Properties of the streaming chat bridge's entrypoint.  They are stated   *)
(* over the pieces the client put in the header (wsEvent.parts), not over   *)
(* the bridge's own parsing of the header string.                           *)

\* the piece holds something besides blanks
NonBlank(piece) == \E i \in 1..Len(piece) : piece[i] # " "

\* the piece without its blanks (no piece here has a blank inside a word)
Trimmed(piece) == SelectSeq(piece, LAMBDA c : c # " ")

\* every spelling of 'auth' in upper and lower case
AuthAnyCase ==
    {<<a, u, t, h>> : a \in {"a", "A"}, u \in {"u", "U"},
                      t \in {"t", "T"}, h \in {"h", "H"}}

\* the status C10 gives a $connect event, 'auth' being one of authNames
ConnectStatus(event, authNames) ==
    LET given  == event.headers.canonical.some \/ event.headers.lowercase.some
        pieces == SelectSeq(event.parts, NonBlank)
        token  == Trimmed(pieces[2])
        secret == event.secret
    IN  IF ~given \/ Len(pieces) < 2 THEN 401
        ELSE IF Trimmed(pieces[1]) \notin authNames THEN 401
        ELSE IF /\ secret.fetched
                /\ secret.key.some
                /\ token = Trimmed(secret.key.val)
        THEN 200
        ELSE 403

\* what C10 states of a response, 'auth' being one of authNames
C10_Post(authNames) ==
    /\ wsEvent.routeKey = "$connect"
       => /\ wsResp.statusCode = ConnectStatus(wsEvent, authNames)
          /\ wsResp.statusCode = 200 <=> wsResp.protocol = "auth"
          /\ ~wsResp.handled
    /\ wsEvent.routeKey = "$disconnect" => wsResp.statusCode = 200
    /\ wsEvent.routeKey \notin {"$connect", "$disconnect", "sendMessage"}
       => (wsResp.statusCode = 404 /\ ~wsResp.handled)

\* C10 as stated: $connect returns 401 when the header is absent, has fewer than
\* two parts or its first part is not 'auth'; 403 when the token differs from
\* the stored api-key after trimming, the secret fetch fails or the secret has
\* no api-key; 200 with Sec-WebSocket-Protocol: auth exactly when the trimmed
\* token equals the trimmed key.  $disconnect returns 200; any other route key
\* but sendMessage returns 404 and does not reach the message handler.
C10_ConnectGate ==
    wsResp # NoWsResp => C10_Post({Auth})

\* C10 amended: the first part is compared with 'auth' ignoring letter case.
C10_ConnectGateAnyCase ==
    wsResp # NoWsResp => C10_Post(AuthAnyCase)

\* C10 witness: 'auth' in another case and a padded token and key were accepted
C10_Witness ==
    /\ wsEvent.routeKey = "$connect"
    /\ wsResp.statusCode = 200
    /\ wsResp.protocol = "auth"
    /\ Len(wsEvent.parts) = 3
    /\ wsEvent.parts[1] # Auth
    /\ wsEvent.parts[2] # Trimmed(wsEvent.parts[2])
    /\ wsEvent.secret.key.val # Trimmed(wsEvent.secret.key.val)

-----------------------------------------------------------------------------
(* Properties of the streaming message handler.  A message is posted when  *)
(* post_to_connection is called with it, whether or not the call succeeds. *)

\* the posts of one type, in order
PostsOf(type) == SelectSeq(hmPosts, LAMBDA q : q.type = type)

\* the texts of the chunk posts, in order
ChunkTexts == [k \in 1..Len(PostsOf("chunk")) |-> PostsOf("chunk")[k].chunk]

\* a sequence with every run of equal neighbours reduced to its first element
RECURSIVE Collapse(_)
Collapse(seq) ==
    IF Len(seq) <= 1 THEN seq
    ELSE IF seq[1] = seq[2] THEN Collapse(Tail(seq))
    ELSE <<seq[1]>> \o Collapse(Tail(seq))

\* the non-empty texts extracted from lines, in order
RECURSIVE NonEmptyTexts(_)
NonEmptyTexts(lines) ==
    IF lines = <<>> THEN <<>>
    ELSE LET line == Head(lines)
             has == ~SkippedLine(line) /\ ~ExtractRaises(line)
                    /\ ExtractText(line) # <<>>
         IN  (IF has THEN <<ExtractText(line)>> ELSE <<>>)
             \o NonEmptyTexts(Tail(lines))

\* C11: on the event-stream path the chunk texts posted are the non-empty texts
\* extracted from the lines taken so far with every run of equal consecutive
\* texts reduced to its first; no two consecutive chunk posts carry the same
\* text; a run that ends without an exception has taken every line.
C11_DedupedChunks ==
    (hmResp.opened /\ hmResp.sse) =>
        /\ ChunkTexts = Collapse(NonEmptyTexts(SubSeq(hmResp.lines, 1, hmI)))
        /\ \A k \in 1..(Len(ChunkTexts) - 1) : ChunkTexts[k] # ChunkTexts[k + 1]
        /\ (hmPc = "done" /\ ~hmRaised) => hmI = Len(hmResp.lines)

\* C11 witness: two different consecutive lines with the same text and a third
\* with another text ended in two chunk posts
C11_Witness ==
    /\ hmPc = "done" /\ ~hmRaised
    /\ hmResp.sse
    /\ Len(hmResp.lines) = 3
    /\ hmResp.lines[1] # hmResp.lines[2]
    /\ NonEmptyTexts(hmResp.lines) = <<<<"x">>, <<"x">>, <<"y">>>>
    /\ ChunkTexts = <<<<"x">>, <<"y">>>>

\* the places where a word of str begins
WordStarts(str) ==
    {i \in 1..Len(str) : str[i] # " " /\ (i = 1 \/ str[i - 1] = " ")}

\* the word of str that begins at place i
WordFrom(str, i) ==
    LET stop == CHOOSE j \in i..Len(str) :
                    /\ \A k \in i..j : str[k] # " "
                    /\ (j = Len(str) \/ str[j + 1] = " ")
    IN  SubSeq(str, i, stop)

\* the whitespace-separated words of str, in order
WordsOf(str) ==
    LET starts == WordStarts(str)
        nth(k) == CHOOSE i \in starts : Cardinality({j \in starts : j < i}) = k - 1
    IN  [k \in 1..Cardinality(starts) |-> WordFrom(str, nth(k))]

Min(a, b) == IF a <= b THEN a ELSE b

\* C12 for a response and the chunk texts posted for it: chunk k holds words
\* 5(k-1)+1 .. min(5k, n) of the response and has no blank at either end;
\* finished, there are ceil(n/5) chunks
ChunkedByFive(message, chunks, finished) ==
    LET words == WordsOf(message)
        n == Len(words)
    IN  /\ Len(chunks) <= (n + 4) \div 5
        /\ finished => Len(chunks) = (n + 4) \div 5
        /\ \A k \in 1..Len(chunks) :
             /\ WordsOf(chunks[k]) = SubSeq(words, 5 * (k - 1) + 1, Min(5 * k, n))
             /\ chunks[k][1] # " "
             /\ chunks[k][Len(chunks[k])] # " "

\* C12: on the non-streaming path a response of n words is posted as ceil(n/5)
\* chunks in order, each of 5 words but the last of the remaining 1..5, none
\* with a blank at either end, together the words of the response in order.
C12_FallbackChunks ==
    (hmResp.opened /\ ~hmResp.sse) =>
        ChunkedByFive(hmResp.message, ChunkTexts, hmPc = "done" /\ ~hmRaised)

\* C12 witness: the 12-word response was posted as chunks of 5, 5 and 2 words
C12_Witness ==
    /\ hmPc = "done" /\ ~hmRaised
    /\ ~hmResp.sse
    /\ Len(WordsOf(hmResp.message)) = 12
    /\ Len(ChunkTexts) = 3
    /\ Len(WordsOf(ChunkTexts[1])) = 5
    /\ Len(WordsOf(ChunkTexts[2])) = 5
    /\ Len(WordsOf(ChunkTexts[3])) = 2

\* the run passed the required-field checks and its loop over the response ran
\* to the end: every line or word was taken and nothing raised on the way
StreamingCompleted ==
    /\ hmResp.opened
    /\ hmI = (IF hmResp.sse THEN Len(hmResp.lines) ELSE Len(WordsOf(hmResp.message)))
    /\ \A k \in 1..Len(hmResp.lines) : ~ExtractRaises(hmResp.lines[k])
    /\ \A k \in 1..Len(hmPosts) : hmPosts[k].type = "chunk" => hmPosts[k].ok
    /\ hmPc = "done"

\* one end message, with the run's ids, after every chunk post
OneEndAfterChunks ==
    /\ Len(PostsOf("end")) = 1
    /\ PostsOf("end")[1].sessionId = hmSessionId
    /\ PostsOf("end")[1].sysUserId = <<"b">>
    /\ \A k \in 1..Len(hmPosts) :
         hmPosts[k].type = "chunk" =>
            \E e \in (k + 1)..Len(hmPosts) : hmPosts[e].type = "end"
    /\ \A e \in 1..Len(hmPosts) :
         hmPosts[e].type = "end" =>
            \A k \in (e + 1)..Len(hmPosts) : hmPosts[k].type # "chunk"

\* C13 as stated: when streaming completes, exactly one end message is posted,
\* after every chunk post on both paths, no chunk is posted after it, and no
\* error message is posted in a run in which the end message was posted.
C13_EndOnce ==
    /\ StreamingCompleted => OneEndAfterChunks
    /\ PostsOf("end") # <<>> => PostsOf("error") = <<>>

\* C13 amended: an error message is posted in a run with an end message only
\* when the end post itself failed, and then directly after it.
C13_EndOnceUnlessEndPostFails ==
    /\ StreamingCompleted => OneEndAfterChunks
    /\ \A e \in 1..Len(hmPosts) :
         hmPosts[e].type = "end" =>
            IF hmPosts[e].ok
            THEN PostsOf("error") = <<>> /\ e = Len(hmPosts)
            ELSE /\ Len(hmPosts) = e + 1
                 /\ hmPosts[e + 1].type = "error"

\* C13 witness: a fallback run posted two chunks and then the end message
C13_Witness ==
    /\ StreamingCompleted
    /\ ~hmResp.sse
    /\ Len(hmPosts) = 3
    /\ hmPosts[2].type = "chunk"
    /\ hmPosts[3].type = "end" /\ hmPosts[3].ok

\* a field of the body is absent or blank after trimming
Lacks(field) == ~field.some \/ \A i \in 1..Len(field.val) : field.val[i] = " "

\* C14 as stated: handle_message returns 200 on every path.
C14_AlwaysReturns200 ==
    hmPc = "done" => hmRet = 200

\* C14 amended: handle_message returns 400 when a required field is missing
\* and the post of that error succeeded, and 200 on every other path.
C14_Returns200UnlessRejected ==
    hmPc = "done" =>
        hmRet = (IF /\ hmBody.parsed
                    /\ \/ Lacks(hmBody.brokerId)
                       \/ Lacks(hmBody.sysUserId)
                       \/ Lacks(hmBody.message)
                    /\ hmPosts[1].ok
                 THEN 400 ELSE 200)

\* C14 witness: a run whose end post failed returned 200
C14_Witness ==
    /\ hmPc = "done"
    /\ hmRet = 200
    /\ PostsOf("end") # <<>>
    /\ ~PostsOf("end")[1].ok

\* C15: a body lacking brokerId, sysUserId or message gets exactly one
\* '<field> is required' post, naming the first lacking field in that order;
\* no session is resolved, the runtime is not invoked, no chunk or end is posted.
C15_FirstMissingField ==
    (hmPc = "done" /\ hmBody.parsed) =>
        LET required == {q \in 1..Len(hmPosts) :
                            hmPosts[q].error \in {"brokerId is required",
                                                  "sysUserId is required",
                                                  "message is required"}}
            expected == IF Lacks(hmBody.brokerId) THEN "brokerId is required"
                        ELSE IF Lacks(hmBody.sysUserId) THEN "sysUserId is required"
                        ELSE IF Lacks(hmBody.message) THEN "message is required"
                        ELSE ""
        IN  IF expected = "" THEN required = {}
            ELSE /\ required = {1}
                 /\ hmPosts[1].error = expected
                 /\ hmSessionId = ""
                 /\ ~hmInvoked
                 /\ PostsOf("chunk") = <<>>
                 /\ PostsOf("end") = <<>>

\* C15 witness: a body with a blank brokerId and no message was answered with
\* 'brokerId is required'
C15_Witness ==
    /\ hmPc = "done"
    /\ hmBody.parsed
    /\ hmBody.brokerId = Some(<<" ">>)
    /\ hmBody.sysUserId = Some(<<" ", "b", " ">>)
    /\ hmBody.message = None
    /\ Len(hmPosts) = 1
    /\ hmPosts[1].error = "brokerId is required"

\* C16: an exception inside the try block leads to at most one post of
\* 'Server error', made after every other post; whether or not that post
\* succeeds, the handler returns.
C16_OneServerErrorPost ==
    LET server == {q \in 1..Len(hmPosts) : hmPosts[q].error = "Server error"}
    IN  /\ Cardinality(server) <= 1
        /\ hmRaised <=> server # {}
        /\ server \subseteq {Len(hmPosts)}
        /\ \A q \in 1..Len(hmPosts) :
             ~hmPosts[q].ok => (q \in server \/ q + 1 \in server)
        /\ hmRaised => (hmPc = "done" /\ hmRet # 0)

\* C16 witness: a chunk post failed, the 'Server error' post failed too and the
\* handler returned
C16_Witness ==
    /\ hmRaised
    /\ hmPc = "done"
    /\ Len(hmPosts) >= 2
    /\ hmPosts[Len(hmPosts) - 1].type = "chunk"
    /\ ~hmPosts[Len(hmPosts) - 1].ok
    /\ hmPosts[Len(hmPosts)].error = "Server error"
    /\ ~hmPosts[Len(hmPosts)].ok

-----------------------------------------------------------------------------
(* Claims about the voice output adapter *)

\* the results of one tool-use id, in the order they were delivered
ResultsOf(id) ==
    LET IsResultOf(event) ==
            event.type = "tool_result" /\ event.result.toolUseId = id
        ResultOf(events) == [k \in 1..Len(events) |-> events[k].result]
    IN  ResultOf(SelectSeq(voLog, IsResultOf))

ToolUseIds == {"t1", "t2"}

\* the tool failed three times in a row
ThreeConsecutiveFailures(id) ==
    LET r == ResultsOf(id)
    IN  \E k \in 1..(Len(r) - 2) :
            IsError(r[k]) /\ IsError(r[k + 1]) /\ IsError(r[k + 2])

\* the tool failed twice in a row and then succeeded
TwoFailuresThenSuccess(id) ==
    LET r == ResultsOf(id)
    IN  /\ Len(r) = 3
        /\ IsError(r[1]) /\ IsError(r[2]) /\ ~IsError(r[3])

StopsAfterThreeFailures ==
    \A id \in ToolUseIds :
        ThreeConsecutiveFailures(id) => ~voActive /\ voTerminated

SurvivesTwoFailures ==
    \A id \in ToolUseIds :
        (/\ TwoFailuresThenSuccess(id)
         /\ \A other \in ToolUseIds \ {id} : ~ThreeConsecutiveFailures(other))
        => voActive /\ ~voTerminated

C18_ConsecutiveOnly ==
    voTerminated <=> \E id \in ToolUseIds : ThreeConsecutiveFailures(id)

\* the deltas of the transcript events numbered from..to, concatenated in order
RECURSIVE DeltasBetween(_, _)
DeltasBetween(from, to) ==
    IF from > to THEN <<>>
    ELSE (IF voLog[from].type = "bidi_transcript_stream"
          THEN Delta(voLog[from]) ELSE <<>>)
         \o DeltasBetween(from + 1, to)

\* the positions in the queue of the messages of one kind
PositionsOf(kind) == {k \in 1..Len(voQueue) : voQueue[k].kind = kind}

\* the position of the most recent contentStart at or before position k, 0 if none
StartBefore(k) ==
    LET starts == {j \in PositionsOf("contentStart") : j <= k}
    IN  IF starts = {} THEN 0
        ELSE CHOOSE j \in starts : \A other \in starts : other <= j

\* the role of the block open when event number i arrives, "" if none
ActiveRoleBefore(i) ==
    LET starts == {j \in PositionsOf("contentStart") : voQueue[j].at < i}
    IN  IF starts = {} THEN ""
        ELSE voQueue[CHOOSE j \in starts : \A other \in starts : other <= j].role

\* event number i is a non-empty delta for a role other than the active one
RoleChangeAt(i) ==
    /\ voLog[i].type = "bidi_transcript_stream"
    /\ Delta(voLog[i]) # <<>>
    /\ ActiveRoleBefore(i) # ""
    /\ ActiveRoleBefore(i) # Role(voLog[i])

TextCarriesAllDeltas ==
    \A k \in PositionsOf("textOutput") :
        voQueue[k].contentId # InterruptionSignal =>
            /\ StartBefore(k) # 0
            /\ voQueue[k].content =
                   DeltasBetween(voQueue[StartBefore(k)].at, voQueue[k].at)
            /\ voQueue[k].content # <<>>

EndExactlyOnRoleChange ==
    /\ \A i \in 1..Len(voLog) :
           LET ends == {k \in PositionsOf("contentEnd") : voQueue[k].at = i}
           IN  Cardinality(ends) = (IF RoleChangeAt(i) THEN 1 ELSE 0)
    /\ \A k \in PositionsOf("contentEnd") :
           /\ StartBefore(k) # 0
           /\ voQueue[k].contentId = voQueue[StartBefore(k)].contentId

AtMostOneOpenBlock ==
    \A k \in 0..Len(voQueue) :
        Cardinality({j \in PositionsOf("contentStart") : j <= k})
        - Cardinality({j \in PositionsOf("contentEnd") : j <= k}) \in {0, 1}

ContentIdsCountUp ==
    \A k \in PositionsOf("contentStart") :
        voQueue[k].contentId =
            ContentId(Cardinality({j \in PositionsOf("contentStart") : j <= k}))

\* C19: for transcript events, every textOutput carries the concatenation, in
\* order, of the non-empty deltas received since the most recent
\* contentStart; a contentEnd is emitted exactly when a non-empty delta
\* arrives for a role other than the active one, and names the open content
\* id; at most one content block is open; content ids are content-1,
\* content-2, ... in the order of the blocks.
C19_AccumulatedTranscript ==
    /\ TextCarriesAllDeltas
    /\ EndExactlyOnRoleChange
    /\ AtMostOneOpenBlock
    /\ ContentIdsCountUp

C19_Witness ==
    /\ \E k \in PositionsOf("textOutput") :
           /\ voQueue[k].contentId = ContentId(1)
           /\ Len(voQueue[k].content) = 2
    /\ \E k \in PositionsOf("contentEnd") :
           /\ voQueue[k].contentId = ContentId(1)
           /\ voQueue[k + 1].kind = "contentStart"
           /\ voQueue[k + 1].contentId = ContentId(2)
    /\ \E i \in 1..Len(voLog) :
           voLog[i].type = "bidi_transcript_stream" /\ Delta(voLog[i]) = <<>>

\* the messages enqueued for event number i, in order
MessagesAt(i) ==
    LET CausedBy(message) == message.at = i
    IN  SelectSeq(voQueue, CausedBy)

\* an interruption is answered by the marker alone, and a delta for the
\* active role that follows it extends the text sent before the interruption
ContinuesAfterInterruption ==
    \A i \in 1..Len(voLog) :
        voLog[i].type = "bidi_interruption" =>
            /\ Len(MessagesAt(i)) = 1
            /\ MessagesAt(i)[1].kind = "textOutput"
            /\ MessagesAt(i)[1].role = "ASSISTANT"
            /\ MessagesAt(i)[1].content = InterruptedMarker
            /\ MessagesAt(i)[1].contentId = InterruptionSignal
            /\ (/\ i > 1 /\ i < Len(voLog)
                /\ voLog[i - 1].type = "bidi_transcript_stream"
                /\ Delta(voLog[i - 1]) # <<>>
                /\ voLog[i + 1].type = "bidi_transcript_stream"
                /\ Delta(voLog[i + 1]) # <<>>
                /\ Role(voLog[i + 1]) = Role(voLog[i - 1]))
               => LET before == MessagesAt(i - 1)[Len(MessagesAt(i - 1))]
                      after == MessagesAt(i + 1)
                  IN  /\ Len(after) = 1
                      /\ after[1].kind = "textOutput"
                      /\ after[1].contentId = before.contentId
                      /\ after[1].content = before.content \o Delta(voLog[i + 1])

\* C20: an interruption event leaves the active content id, the active role,
\* the accumulated text and the content counter unchanged and emits no
\* contentEnd; it enqueues exactly one textOutput with role ASSISTANT, the
\* interruption marker and the reserved content id, so the deltas that follow
\* continue the same content block and buffer.
C20_InterruptionKeepsBlock ==
    [][/\ (voActive /\ voLog' = Append(voLog, InterruptionEvent)) =>
              /\ voContentId' = voContentId
              /\ voRole' = voRole
              /\ voText' = voText
              /\ voCounter' = voCounter
              /\ Len(voQueue') = Len(voQueue) + 1
              /\ SubSeq(voQueue', 1, Len(voQueue)) = voQueue
       /\ ContinuesAfterInterruption']_vars

C20_Witness ==
    \E i \in 2..(Len(voLog) - 1) :
        /\ voLog[i].type = "bidi_interruption"
        /\ voLog[i - 1].type = "bidi_transcript_stream"
        /\ voLog[i + 1].type = "bidi_transcript_stream"
        /\ voContentId = 1
        /\ voRole = "USER"
        /\ Len(voText) = 2
        /\ voQueue[Len(voQueue)].content = voText
        /\ voQueue[Len(voQueue) - 1].contentId = InterruptionSignal

-----------------------------------------------------------------------------
(* Claims about the voice bridge's connection handling *)

\* C21: once handle_websocket has returned, the agent task, the receiver
\* task and the sender task have all finished, and no exception has left
\* the handler.
C21_TasksFinishedAtReturn ==
    cwPc = "returned" =>
        /\ cwAgent \in {"none", "done"}
        /\ cwReceiver \in {"none", "done"}
        /\ cwSender \in {"none", "done"}
        /\ ~cwEscaped

\* C22: a voice session that ends because the agent run failed has sent an
\* in-band error event to the client by the time the handler returns.
C22_ErrorEventSent ==
    (cwPc = "returned" /\ cwOutcome = "failed") =>
        \E k \in 1..Len(cwSent) : cwSent[k] = "error"

\* C23: across the connections of one process, concurrent ones included,
\* the tool set is loaded from the Gateway at most once and every connection
\* uses that same list.
C23_ToolsLoadedOnce ==
    /\ gtLoads <= 1
    /\ \A c, d \in Connections :
           (gtUsed[c] # 0 /\ gtUsed[d] # 0) => gtUsed[c] = gtUsed[d]

-----------------------------------------------------------------------------
(* Claims about the warehouse tools *)

\* the latest call found a cached connection whose liveness check passed
LivenessPassed == sfCall.cachedBefore # 0 /\ ~sfCall.closedBefore /\ ~sfCall.checkRaised

\* C24 as stated: the cached connection is returned only when it was created
\* less than 3,600 seconds earlier and its liveness check has just passed;
\* in every other case a fresh connection is established and cached (or
\* the attempt to connect raises).
C24_ReuseWithinTtlOfCreation ==
    sfCall.kind # "none" =>
        IF sfCall.cachedBefore # 0 /\ sfCall.sinceCreated < CONNECTION_TTL
           /\ LivenessPassed
        THEN sfCall.kind = "reused" /\ sfCall.conn = sfCall.cachedBefore
        ELSE \/ sfCall.kind = "fresh" /\ sfCached = sfCall.conn
             \/ sfCall.kind = "raised"

\* C24, amended: the cached connection is returned only when it was created
\* or last returned less than 3,600 seconds earlier and its liveness check
\* has just passed; in every other case a fresh connection is attempted,
\* and when it is established it is cached and returned, otherwise the call
\* raises.
C24_ReuseWithinTtlOfLastUse ==
    sfCall.kind # "none" =>
        IF sfCall.cachedBefore # 0 /\ sfCall.sinceLast < CONNECTION_TTL
           /\ LivenessPassed
        THEN /\ sfCall.kind = "reused"
             /\ sfCall.conn = sfCall.cachedBefore
             /\ sfCached = sfCall.conn
        ELSE \/ /\ sfCall.kind = "fresh"
                /\ sfCall.conn # sfCall.cachedBefore
                /\ sfCached = sfCall.conn
                /\ sfConns[sfCall.conn].created = sfCall.at
             \/ sfCall.kind = "raised"

C24_Witness ==
    /\ sfCall.kind = "reused"
    /\ sfCall.sinceCreated >= CONNECTION_TTL
    /\ sfCall.sinceLast < CONNECTION_TTL

\* the latest invocation of the synchronous tool closed what it obtained
SyncClosesOnce ==
    whCall.handled =>
        IF IsWarmup(whCall.event)
        THEN /\ whCall.response.statusCode = 200
             /\ whCall.connects = 0 /\ whCall.queries = 0 /\ whCall.closes = 0
        ELSE whCall.conn # 0 =>
                 /\ whCall.closes = 1
                 /\ whCall.response = whCall.tried

\* the latest invocation of the asynchronous tool closed what it obtained
AsyncClosesOnce ==
    ahCall.handled =>
        IF IsWarmup(ahCall.event)
        THEN /\ ahCall.response.statusCode = 200
             /\ ahCall.connects = 0 /\ ahCall.ran = 0 /\ ahCall.closes = 0
        ELSE ahCall.connected =>
                 /\ ahCall.closes = 1
                 /\ ahCall.response = ahCall.tried

\* C25: an invocation that is not a warm-up and obtained a connection
\* attempts its close exactly once on every path, and a failing close
\* changes neither status nor body; a warm-up event returns 200 without
\* connecting, querying or closing and leaves the connection cache as it is.
C25_CloseOnceOnEveryPath ==
    [][whCount' # whCount =>
          /\ SyncClosesOnce'
          /\ AsyncClosesOnce'
          /\ (whTool = "sync" /\ IsWarmup(whCall'.event)) => UNCHANGED sfVars]_vars

C25_Witness ==
    /\ whCall.handled
    /\ whCall.conn # 0
    /\ ~whCall.closeOk
    /\ whCall.response.field = "query_type"
    /\ whCall.closes = 1
    /\ ~sfConns[whCall.conn].closed

\* C26: for a query_types array of valid types the results list has one
\* entry per requested type in request order, each entry's status follows
\* from that report's own execution, no failure leaves the handler, and
\* successful_queries + failed_queries = total_queries = the number
\* requested.
C26_ReportsIndependent ==
    LET types == ahCall.event.query_types
        response == ahCall.response
    IN  (/\ ahCall.handled
         /\ ~IsWarmup(ahCall.event)
         /\ ahCall.event.sys_user_id # ""
         /\ types # <<>>
         /\ \A i \in 1..Len(types) : types[i] \in ValidTypes
         /\ ahCall.ran > 0)
        => /\ response.statusCode = 200
           /\ Len(response.results) = Len(types)
           /\ \A i \in 1..Len(types) :
                  /\ response.results[i].query_type = types[i]
                  /\ response.results[i].status =
                         (IF ahCall.returns[i] THEN "success" ELSE "failed")
                  /\ ahCall.returns[i] => response.results[i].rows = <<types[i], i>>
           /\ response.total_queries = Len(types)
           /\ response.successful_queries + response.failed_queries
                  = response.total_queries

C26_Witness ==
    /\ ahCall.handled
    /\ Len(ahCall.event.query_types) = 2
    /\ ahCall.ran = 2
    /\ ahCall.response.results[1].status = "failed"
    /\ ahCall.response.results[2].status = "success"
    /\ ahCall.response.successful_queries = 1
    /\ ahCall.response.failed_queries = 1

\* C27: a missing required input field is reported as status 400 with a
\* message naming the field, here by the two warehouse tools.
C27_MissingFieldIs400 ==
    /\ whCall.response.error = "Missing required parameter" =>
           /\ whCall.response.statusCode = 400
           /\ whCall.response.field \in {"sys_user_id", "query_type"}
    /\ ahCall.response.error = "Missing required parameter" =>
           /\ ahCall.response.statusCode = 400
           /\ ahCall.response.field \in {"sys_user_id", "query_type or query_types"}

-----------------------------------------------------------------------------
\* Claims about the loan-detail tool

LoginYieldedToken ==
    /\ ~hyCall.login.raised
    /\ hyCall.login.status = 200
    /\ hyCall.login.body.json
    /\ \/ Truthy(hyCall.login.body.token)
       \/ Truthy(hyCall.login.body.access_token)

\* C28: with loanId and queryName present the entrypoint returns 200 with
\* {loanId, queryName, hydraResult} and never raises; the query step runs
\* only after a 200 login with a non-empty token; a non-200 status or a
\* transport failure in either step gives hydraResult = {error}; a 200
\* login without a token gives hydraResult null and no query call.
C28_AlwaysTransport200 ==
    (hyCall.handled /\ hyCall.event.loanId # "" /\ hyCall.event.queryName # "")
    => /\ ~hyCall.raised
       /\ hyCall.response.statusCode = 200
       /\ hyCall.response.loanId = hyCall.event.loanId
       /\ hyCall.response.queryName = hyCall.event.queryName
       /\ hyCall.loginCalls = 1
       /\ hyCall.queryCalls = (IF LoginYieldedToken THEN 1 ELSE 0)
       /\ (hyCall.login.raised \/ hyCall.login.status # 200)
              => hyCall.response.hydraResult.kind = "error"
       /\ (hyCall.queryCalls = 1 /\ (hyCall.query.raised \/ hyCall.query.status # 200))
              => hyCall.response.hydraResult.kind = "error"
       /\ (/\ ~hyCall.login.raised
           /\ hyCall.login.status = 200
           /\ hyCall.login.body.json
           /\ ~LoginYieldedToken)
              => /\ hyCall.response.hydraResult = HydraResult("null", "")
                 /\ hyCall.queryCalls = 0

C28_Witness ==
    /\ hyCall.handled
    /\ hyCall.event.loanId = "L1"
    /\ hyCall.login.status = 200
    /\ hyCall.login.body.token = ""
    /\ hyCall.login.body.access_token = "t2"
    /\ hyCall.queryCalls = 1
    /\ hyCall.query.status = 500
    /\ hyCall.response.statusCode = 200
    /\ hyCall.response.hydraResult.kind = "error"

C28_WitnessNoToken ==
    /\ hyCall.handled
    /\ hyCall.event.loanId = "L1"
    /\ hyCall.login.status = 200
    /\ hyCall.login.body.json
    /\ ~LoginYieldedToken
    /\ hyCall.response.hydraResult.kind = "null"

-----------------------------------------------------------------------------
\* Claims about the raw-protocol voice bridge

RbToClient(s) == s.to = "client"

RbFromBridge(s) == s.src = "bridge"

RbFromClient(s) == s.src = "client"

\* the promptName of the latest completionStart received before event j
PromptAt(j) ==
    LET starts == {i \in 1..j : rbReceived[i].type = "completionStart"}
    IN  IF starts = {} THEN ""
        ELSE rbReceived[CHOOSE i \in starts : \A k \in starts : k <= i].promptName

\* where in the log the j-th received event was forwarded to the client
ForwardsOf(j) ==
    {k \in DOMAIN rbLog : /\ RbToClient(rbLog[k])
                          /\ Len(SelectSeq(SubSeq(rbLog, 1, k), RbToClient)) = j}

\* where in the log the reply named 'tool-result-<n>' was sent
RepliesNamed(n) ==
    {k \in DOMAIN rbLog : /\ RbFromBridge(rbLog[k])
                          /\ rbLog[k].event.contentName = ToolResultName(n)}

\* the j-th received event, the contentEnd of a tool use, was answered by
\* one execution and one three-part reply sent before it was forwarded
AnsweredOnce(j) ==
    LET id == rbReceived[j].toolUseId
    IN  /\ Cardinality({k \in DOMAIN rbExecs : rbExecs[k] = id}) = 1
        /\ \E n \in 1..rbCounter :
            /\ Cardinality(RepliesNamed(n)) = 3
            /\ \E k \in DOMAIN rbLog :
                /\ k + 2 <= Len(rbLog)
                /\ SubSeq(rbLog, k, k + 2) = ToolReply(PromptAt(j), id, n)
                /\ \A f \in ForwardsOf(j) : k + 2 < f

\* C29: every toolUse followed by its contentEnd is executed exactly once
\* and answered by contentStart, toolResult, contentEnd in that order with
\* the promptName of completionStart and one fresh name 'tool-result-<n>',
\* sent before the contentEnd is forwarded; a contentEnd outside a tool use
\* triggers no execution; every model event is forwarded unmodified in
\* arrival order.  (Stated for the events the bridge has forwarded, so that
\* an event in flight when the session ends does not count.)
C29_ToolUseAnsweredOnce ==
    /\ \A j \in DOMAIN rbReceived :
           (/\ rbReceived[j].type = "contentEnd"
            /\ rbReceived[j].tool
            /\ ForwardsOf(j) # {})
           => AnsweredOnce(j)
    /\ \A k \in DOMAIN rbExecs :
           \E j \in DOMAIN rbReceived :
               /\ rbReceived[j].type = "contentEnd"
               /\ rbReceived[j].tool
               /\ rbReceived[j].toolUseId = rbExecs[k]
    /\ LET forwarded == SelectSeq(rbLog, RbToClient)
       IN  /\ Len(forwarded) <= Len(rbReceived)
           /\ \A i \in DOMAIN forwarded : forwarded[i].event = rbReceived[i]

\* the same without the reply: executions only for tool uses, forwarding in
\* arrival order
C29_ForwardedInOrder ==
    /\ \A k \in DOMAIN rbExecs :
           \E j \in DOMAIN rbReceived :
               /\ rbReceived[j].type = "contentEnd"
               /\ rbReceived[j].tool
               /\ rbReceived[j].toolUseId = rbExecs[k]
    /\ LET forwarded == SelectSeq(rbLog, RbToClient)
       IN  /\ Len(forwarded) <= Len(rbReceived)
           /\ \A i \in DOMAIN forwarded : forwarded[i].event = rbReceived[i]

BothStopped ==
    /\ rbWs \in {"done", "cancelled"}
    /\ rbBr \in {"done", "cancelled"}

\* C30: whichever loop finishes first, the other is cancelled and awaited;
\* the model stream's input side is closed only after both have stopped,
\* exactly once, and handle_websocket then returns; after a client
\* sessionEnd was forwarded to the model no further client message is.
C30_CancelThenCloseOnce ==
    /\ rbClosed <= 1
    /\ rbPc = "awaiting" => (rbWs = "done" \/ rbBr = "done")
    /\ rbClosed = 1 => /\ BothStopped
                       /\ rbWs = "done" \/ rbBr = "done"
                       /\ rbPc = "returned"
    /\ (rbPc = "returned" /\ rbWs # "none") => rbClosed = 1
    /\ \A i, j \in DOMAIN rbLog :
           (/\ i < j
            /\ RbFromClient(rbLog[i])
            /\ rbLog[i].event.type = "sessionEnd")
           => ~RbFromClient(rbLog[j])

C30_Witness ==
    /\ rbPc = "returned"
    /\ rbClosed = 1
    /\ rbWs = "done"
    /\ rbBr = "cancelled"
    /\ rbMsgs = 1
    /\ \E i \in DOMAIN rbLog : /\ RbFromClient(rbLog[i])
                               /\ rbLog[i].event.type = "sessionEnd"

C30_WitnessModelFirst ==
    /\ rbPc = "returned"
    /\ rbClosed = 1
    /\ rbWs = "cancelled"
    /\ rbBr = "done"

-----------------------------------------------------------------------------
\* Claims about the credential refresh

\* C31 as stated: after a successful fetch the delay is
\* min(max(secondsUntilExpiration - 300, 60), 3600), within [60, 3600];
\* after any failure (fetch unsuccessful, unparsable expiration, any
\* exception) the delay is 300; the loop ends only on cancellation.
C31_FailureDelayIs300 ==
    crRounds > 0 =>
        /\ crFetch.kind = "success" =>
               /\ crDelay = RefreshInterval(crFetch.seconds)
               /\ crDelay >= 60 /\ crDelay <= 3600
        /\ crFetch.kind \in {"failed", "unparsable", "raised"} => crDelay = 300

\* C31, amended: an Expiration that does not parse gives 3,600 seconds; a
\* failed fetch or an exception gives 300; a parsed expiration gives the
\* clamped interval; the loop ends only from its sleep, by cancellation.
C31_UnparsableDelayIs3600 ==
    /\ crRounds > 0 =>
        /\ crFetch.kind = "success" =>
               /\ crDelay = (IF crFetch.seconds - 300 < 60 THEN 60
                             ELSE IF crFetch.seconds - 300 > 3600 THEN 3600
                             ELSE crFetch.seconds - 300)
               /\ crDelay >= 60 /\ crDelay <= 3600
        /\ crFetch.kind \in {"failed", "raised"} => crDelay = 300
        /\ crFetch.kind = "unparsable" => crDelay = 3600
    /\ crPc = "ended" => crRounds > 0

C31_Witness ==
    /\ crPc = "sleeping"
    /\ crFetch.kind = "unparsable"
    /\ crDelay = 3600
    /\ crRounds = 2

-----------------------------------------------------------------------------
\* Claims about concurrent callers of the session service

\* the active records of one context of broker b1 and user u1
ActiveInContext(loan) ==
    {it \in table : /\ it.PK = <<"b1", "u1">>
                    /\ it.loanId = loan
                    /\ it.status = "active"}

\* C32: two get_or_create_session calls for the same context that both ran
\* their query before either wrote both return new_session = true with
\* different sessionIds, and two fresh active records for that context are
\* in the table.
C32_BothCreate ==
    (/\ gcRet[1].returned /\ gcRet[2].returned
     /\ gcLoan[1] = gcLoan[2]
     /\ gcSeen[1] = {} /\ gcSeen[2] = {})
    => /\ gcRet[1].new_session /\ gcRet[2].new_session
       /\ gcRet[1].sessionId # gcRet[2].sessionId
       /\ \A c \in Callers :
              \E it \in ActiveInContext(gcLoan[c]) :
                  it.sessionId = gcRet[c].sessionId

C32_Witness ==
    /\ ticks = 0
    /\ table # {}
    /\ gcRet[1].returned /\ gcRet[2].returned
    /\ gcLoan[1] = gcLoan[2]
    /\ gcRet[1].new_session /\ gcRet[2].new_session
    /\ Cardinality({it \in ActiveInContext(gcLoan[1]) :
                        it.createdAt = now /\ it.lastActivityAt = now}) = 2
    /\ Cardinality(usedUuids) = 2

-----------------------------------------------------------------------------
\* Claims about concurrent callers of the connection cache

\* C33: a caller that found the busy flag set sleeps and then proceeds with
\* whatever is cached: it returns a cached connection, and with nothing
\* cached (the first attempt not finished) it starts an attempt of its own,
\* so that two attempts run at once; the attempt that ends first resets the
\* flag although the other is still in progress.
C33_SleepThenProceed ==
    [][\A t \in Threads :
          /\ (bcPc[t] = "sleeping" /\ bcPc'[t] # "sleeping") =>
                 IF sfCached # 0
                 THEN /\ bcPc'[t] = "returned"
                      /\ bcRet'[t].conn = sfCached
                      /\ UNCHANGED sfConns
                 ELSE /\ bcPc'[t] = "connecting"
                      /\ bcLock'
          /\ (bcPc[t] = "connecting" /\ bcPc'[t] = "returned") => ~bcLock']_vars

C33_Witness ==
    /\ bcPc[1] = "returned"
    /\ bcRet[1].how = "fresh"
    /\ bcPc[2] = "connecting"
    /\ bcSawBusy[2]
    /\ ~bcLock
    /\ sfNow = 0
    /\ Len(sfConns) = 1

C33_WitnessTwoConnections ==
    /\ bcRet[1].how = "fresh"
    /\ bcRet[2].how = "fresh"
    /\ bcSawBusy[2]
    /\ bcRet[1].conn # bcRet[2].conn
    /\ sfNow = 0
    /\ Len(sfConns) = 2

-----------------------------------------------------------------------------
\* Claims about the briefing agent

\* C34: for any number of concurrent invocations the agent is constructed
\* successfully at most once and every invocation that proceeds uses that
\* instance; a failed construction leaves the cached agent unset, so a
\* later invocation retries; an invocation without sysUserId yields exactly
\* one error event and never constructs or runs the agent.
C34_AgentBuiltOnce ==
    /\ kaBuilt <= 1
    /\ kaAgent = kaBuilt
    /\ Cardinality({i \in Briefings : kaPc[i] = "loading"}) <= 1
    /\ kaTries = kaBuilt + Cardinality({i \in Briefings :
                                            kaPc[i] \in {"loading", "failed"}})
    /\ \A i \in Briefings :
        /\ kaPc[i] \in {"streaming", "done"} => (kaUsed[i] = kaAgent /\ kaAgent # 0)
        /\ kaPc[i] = "rejected" => (kaErrors[i] = 1 /\ kaUsed[i] = 0)
        /\ kaPc[i] # "rejected" => kaErrors[i] = 0
        /\ kaPc[i] = "waiting" /\ kaLock = 0 => ENABLED KaEnterLock(i)

C34_Witness ==
    /\ kaPc[1] = "failed"
    /\ kaPc[2] = "rejected"
    /\ kaPc[3] = "streaming"
    /\ kaTries = 2
    /\ kaBuilt = 1
    /\ kaUsed[3] = 1

\* the toolUse event that the j-th received event, a contentEnd, closes
ToolUseBefore(j) == rbReceived[j - 1]

\* the j-th received event, the contentEnd of a tool use, was answered with
\* the complete three-part reply
RepliedInFull(j) ==
    \E n \in 1..rbCounter :
        /\ Cardinality(RepliesNamed(n)) = 3
        /\ \E k \in DOMAIN rbLog :
            /\ k + 2 <= Len(rbLog)
            /\ SubSeq(rbLog, k, k + 2)
                   = ToolReply(PromptAt(j), rbReceived[j].toolUseId, n)

\* C35: every captured tool use receives the complete contentStart /
\* toolResult / contentEnd reply, with an error object as content when the
\* tool is not found, raises, or its input is not valid JSON; and the
\* captured tool id, name and input are cleared afterwards, so that no
\* later contentEnd executes the tool again.
C35_FailureStillReplied ==
    /\ \A j \in DOMAIN rbReceived :
           (/\ rbReceived[j].type = "contentEnd"
            /\ rbReceived[j].tool
            /\ ForwardsOf(j) # {})
           => RepliedInFull(j)
    /\ \A k \in DOMAIN rbExecs :
           Cardinality({m \in DOMAIN rbExecs : rbExecs[m] = rbExecs[k]}) = 1
    /\ (/\ rbBr = "running"
        /\ rbReceived # <<>>
        /\ ~RbIsToolUse(rbReceived[Len(rbReceived)]))
       => rbToolUseId = 0

\* the part of C35 that concerns failures inside execute_tool and the
\* clearing of the captured tool use
C35_ClearedAfterwards ==
    /\ Len(rbContents) = Len(rbExecs)
    /\ Len(rbExecs) = rbCounter
    /\ \A k \in DOMAIN rbExecs :
           Cardinality({m \in DOMAIN rbExecs : rbExecs[m] = rbExecs[k]}) = 1
    /\ (/\ rbBr = "running"
        /\ rbReceived # <<>>
        /\ ~RbIsToolUse(rbReceived[Len(rbReceived)]))
       => rbToolUseId = 0

-----------------------------------------------------------------------------
(* Properties of the voice input adapter.                                  *)

\* what __call__ has taken off input_queue
WiTaken == SubSeq(wiPut, 1, Len(wiPut) - Len(wiQueue))

\* the audio among the events returned to the agent
AudioReturned == SelectSeq(wiReturned, LAMBDA x : x # EmptyAudio)

\* audio comes back in the order it was put, each item once, and the
\* receiver has put the sentinel whenever it is over
FifoAndSentinel ==
    /\ AudioReturned = SelectSeq(WiTaken, LAMBDA x : x # Sentinel)
    /\ AudioReturned = [i \in 1..Len(AudioReturned) |-> i]
    /\ wiQueue = SubSeq(wiPut, Len(wiPut) - Len(wiQueue) + 1, Len(wiPut))
    /\ (\E i \in 1..Len(WiTaken) : WiTaken[i] = Sentinel) => ~wiActive
    /\ wiReceiver = "done" => wiPut # <<>> /\ wiPut[Len(wiPut)] = Sentinel

\* the call that dequeues the sentinel, or is cancelled, returns one empty
\* event and leaves the adapter inactive; an inactive adapter stays so and
\* answers with empty events, taking nothing off the queue
FinalEmptyEvent ==
    /\ (wiActive /\ ~wiActive' /\ wiReturned' # wiReturned)
          => wiReturned' = Append(wiReturned, EmptyAudio)
    /\ (wiActive /\ wiQueue # <<>> /\ Head(wiQueue) = Sentinel /\ wiQueue' # wiQueue
          /\ Len(wiQueue') < Len(wiQueue))
          => ~wiActive' /\ wiReturned' = Append(wiReturned, EmptyAudio)
    /\ ~wiActive =>
          /\ ~wiActive'
          /\ Len(wiPut') - Len(wiQueue') = Len(wiPut) - Len(wiQueue)
          /\ wiReturned' # wiReturned => wiReturned' = Append(wiReturned, EmptyAudio)

-----------------------------------------------------------------------------
\* Claims about the records of the session table

\* every record's ttl follows its last activity, which is not before its
\* creation, and its status is active
RecordShape ==
    \A it \in table :
        /\ it.ttl = it.lastActivityAt + TTL_SECONDS
        /\ it.createdAt <= it.lastActivityAt
        /\ it.status = "active"

\* no step deletes a record, changes the fields set at creation or moves
\* lastActivityAt back
RecordKept ==
    \A it \in table :
        \E to \in table' :
            /\ to.PK = it.PK /\ to.SK = it.SK
            /\ to.sessionId = it.sessionId
            /\ to.createdAt = it.createdAt
            /\ to.brokerId = it.brokerId
            /\ to.loanOfficerId = it.loanOfficerId
            /\ to.loanId = it.loanId
            /\ to.status = it.status
            /\ to.lastActivityAt >= it.lastActivityAt

\* C37: in every reachable state of the session table, for every record,
\* ttl = lastActivityAt + 7,776,000 and createdAt <= lastActivityAt; the
\* fields createdAt, sessionId, PK, SK, brokerId, loanOfficerId, loanId and
\* status never change after creation; lastActivityAt never decreases while
\* the clock does not go back; no operation deletes a record or sets a
\* status other than 'active'.
C37_RecordInvariants == []RecordShape /\ [][RecordKept]_vars

\* the step is a successful get_or_create_session
GetOrCreateAnswered ==
    /\ <<table, last>>' # <<table, last>>
    /\ last'.op = "get_or_create_session"
    /\ last'.statusCode = 200

\* C38: get_or_create_session called for a context never returns or
\* refreshes a session created for another context of the same broker and
\* user: a Portal request never reuses a Loan session, and a request for
\* loanId L never reuses or modifies a session created for another loanId,
\* also when L followed by a hyphen begins the other loanId.
C38_ContextIsolation ==
    [][GetOrCreateAnswered =>
          /\ \A it \in table' :
                 it.sessionId = last'.sessionId => it.loanId = last'.loan
          /\ \A it \in table :
                 it \notin table' => it.loanId = last'.loan]_vars

-----------------------------------------------------------------------------
\* Claims about the sender of the voice bridge with custom adapters

\* the events put on output_queue, in order
Enqueued == SelectSeq(cwLog, LAMBDA e : e # "shutdown")

\* the events put on output_queue before is_active was first cleared
EnqueuedBeforeShutdown ==
    LET at == {i \in 1..Len(cwLog) : cwLog[i] = "shutdown"}
        upto == IF at = {} THEN Len(cwLog)
                ELSE (CHOOSE i \in at : \A j \in at : i <= j) - 1
    IN  SelectSeq(SubSeq(cwLog, 1, upto), LAMBDA e : e # "None")

StartsWith(s, p) == Len(p) <= Len(s) /\ SubSeq(s, 1, Len(p)) = p

\* what was sent is the beginning of what was enqueued, holds no sentinel
\* and starts with the acknowledgement
SentInOrder ==
    /\ StartsWith(Enqueued, cwSent)
    /\ \A k \in 1..Len(cwSent) : cwSent[k] # "None"
    /\ cwSent # <<>> => cwSent[1] = "connectionStart"

\* websocket.send raised: an event was taken off the queue and not sent
SendFailed ==
    /\ Len(Enqueued) - Len(cwOutput) > Len(cwSent)
    /\ Enqueued[Len(cwSent) + 1] # "None"

\* a sender that has stopped, the connection being there, has sent what was
\* enqueued before the shutdown
SentBeforeStop ==
    (cwSender = "done" /\ ~SendFailed)
        => StartsWith(cwSent, EnqueuedBeforeShutdown)

\* C39: in the voice bridge with custom adapters the events sent to the
\* client are always a prefix of the events enqueued on the output queue
\* (in order, none twice, nothing after the None sentinel), connectionStart
\* is the first event sent on a connection, and every event enqueued before
\* the shutdown begins is sent before the sender task stops.
C39_SentAllBeforeStop == SentInOrder /\ SentBeforeStop

-----------------------------------------------------------------------------
\* Claims about the connection cache of the synchronous warehouse tool

\* the step is an invocation of the synchronous tool that is not a warm-up
SyncInvocation ==
    /\ whTool = "sync"
    /\ whCount' # whCount
    /\ ~IsWarmup(whCall'.event)

\* the invocation before was not a warm-up either
FollowsInvocation == whCall.handled /\ ~IsWarmup(whCall.event)

\* C40 as stated: the cached connection is closed after every completed
\* invocation of the synchronous tool that is not a warm-up, so an
\* invocation that follows another one in the container establishes a fresh
\* connection, and a cached connection is reused at most once, by the first
\* invocation after the warm-up at module load.
C40_ClosedAfterEveryInvocation ==
    [][SyncInvocation =>
          /\ whCall'.conn # 0 =>
                 (sfCached' # 0 /\ sfConns'[sfCached'].closed)
          /\ FollowsInvocation => sfCall'.kind # "reused"]_vars

\* C40, amended: the invocation leaves the connection it obtained cached,
\* and closed exactly when its close did not raise; an invocation that
\* follows one whose close did not raise never reuses, and one that reuses
\* after another invocation reuses the connection that invocation failed
\* to close.
C40_ClosedUnlessCloseFails ==
    [][SyncInvocation =>
          /\ whCall'.conn # 0 =>
                 /\ sfCached' = whCall'.conn
                 /\ sfConns'[sfCached'].closed <=> whCall'.closeOk
          /\ (FollowsInvocation /\ whCall.closeOk) => sfCall'.kind # "reused"
          /\ (FollowsInvocation /\ sfCall'.kind = "reused") =>
                 /\ ~whCall.closeOk
                 /\ whCall'.conn = whCall.conn]_vars

\* the warm-up's connection was reused and closed by an invocation, and the
\* invocation after it found the cache referring to the closed connection
\* and established a second one
C40_Witness ==
    /\ whTool = "sync"
    /\ whCount = 2
    /\ ~IsWarmup(whCall.event)
    /\ whCall.cacheBefore[1] = 1
    /\ sfConns[1].closed
    /\ sfCall.kind = "fresh"
    /\ whCall.conn = 2
    /\ sfCached = 2
    /\ sfConns[2].closed
====
